---- MODULE Spec2Model ----
(***************************************************************************)
(* Puzzle record lifecycle of the bit-for-bit backend: the Express         *)
(* handlers of PuzzleController (addPuzzle, loadPuzzle, updatePuzzle,      *)
(* deletePuzzle), the authorizeUser middleware and the Mongoose Puzzle     *)
(* schema (casting, setters, validators, pre-save hook).                   *)
(*                                                                         *)
(* JavaScript values are tagged records [t, v]; strings are sequences of   *)
(* one-character strings; numbers are fixed-point with FracDigits decimal  *)
(* digits, so that "2.5" is a number that is not an integer.               *)
(***************************************************************************)
EXTENDS Integers, Sequences, FiniteSets, TLC

\* ------------------------------------------------------------------------
\* Bounds of the model
\* ------------------------------------------------------------------------
\* Number of puzzle records that can be created in one behaviour.
MaxRecords == 1
\* Decimal digits kept after the decimal point of a number.
FracDigits == 1

Scale == 10 ^ FracDigits

\* ------------------------------------------------------------------------
\* JavaScript values
\* ------------------------------------------------------------------------
Undef == [t |-> "undef", v |-> 0]
Null == [t |-> "null", v |-> 0]
NaN == [t |-> "nan", v |-> 0]
CastError == [t |-> "casterror", v |-> 0]
Str(s) == [t |-> "str", v |-> s]
Num(n) == [t |-> "num", v |-> n]
Bool(b) == [t |-> "bool", v |-> b]
\* The number literal n of the source, in fixed point.
Lit(n) == Num(n * Scale)

IsStr(x) == x.t = "str"
IsNum(x) == x.t = "num"
IsBool(x) == x.t = "bool"
IsNullish(x) == x.t \in {"undef", "null"}

Rep(c, n) == [i \in 1..n |-> c]

DigitChars == <<"0", "1", "2", "3", "4", "5", "6", "7", "8", "9">>
Digits == {DigitChars[i] : i \in 1..10}
DigitVal(c) == (CHOOSE i \in 1..10 : DigitChars[i] = c) - 1
Whitespace == {" ", "\t", "\n"}

SetMin(S) == CHOOSE m \in S : \A k \in S : m <= k
\* The greatest element, as the least of the negated ones.
SetMax(S) == 0 - SetMin({0 - k : k \in S})

\* String.prototype.trim
Span(s, keep) == IF keep = {} THEN <<>> ELSE SubSeq(s, SetMin(keep), SetMax(keep))
Trim(s) == Span(s, {i \in 1..Len(s) : s[i] \notin Whitespace})

\* Value of a sequence of decimal digits.
RECURSIVE DigitsToInt(_)
DigitsToInt(s) ==
  IF s = <<>> THEN 0
  ELSE 10 * DigitsToInt(SubSeq(s, 1, Len(s) - 1)) + DigitVal(s[Len(s)])

AllDigits(s) == \A i \in 1..Len(s) : s[i] \in Digits

\* Fraction digits d1 d2 ... as a fixed-point amount (digits beyond
\* FracDigits are below the model's precision).
PadFrac(kept) == DigitsToInt(kept) * (10 ^ (FracDigits - Len(kept)))
FracToFixed(s) == PadFrac(SubSeq(s, 1, IF Len(s) < FracDigits THEN Len(s) ELSE FracDigits))

\* StringToNumber of ECMAScript on decimal literals: surrounding white
\* space is dropped, the empty string is 0, [-]digits[.digits] is its
\* value, anything else is NaN.
Magnitude(ip, fp) ==
  IF AllDigits(ip) /\ AllDigits(fp) /\ (ip # <<>> \/ fp # <<>>)
  THEN Num(DigitsToInt(ip) * Scale + FracToFixed(fp))
  ELSE NaN
SplitAt(u, dots) ==
  IF dots = {} THEN Magnitude(u, <<>>)
  ELSE Magnitude(SubSeq(u, 1, SetMin(dots) - 1), SubSeq(u, SetMin(dots) + 1, Len(u)))
Unsigned(u) == SplitAt(u, {i \in 1..Len(u) : u[i] = "."})
Negate(x) == IF x.t = "num" THEN Num(0 - x.v) ELSE x
DecimalLiteral(t) ==
  IF t = <<>> THEN Num(0)
  ELSE IF t[1] = "-" THEN Negate(Unsigned(Tail(t)))
  ELSE Unsigned(t)
StringToNumber(s) == DecimalLiteral(Trim(s))

\* ToNumber
ToNumber(x) ==
  CASE x.t = "undef" -> NaN
    [] x.t = "null" -> Num(0)
    [] x.t = "nan" -> NaN
    [] x.t = "bool" -> IF x.v THEN Lit(1) ELSE Lit(0)
    [] x.t = "num" -> x
    [] x.t = "str" -> StringToNumber(x.v)

\* isNaN(x)
isNaN(x) == ToNumber(x).t = "nan"

\* Truncation toward zero of a fixed-point amount.
Trunc(n) == IF n >= 0 THEN (n \div Scale) * Scale ELSE 0 - (((0 - n) \div Scale) * Scale)

\* parseInt(x): the leading integer of String(x).
LeadingDigits(u, stop) == IF stop = {} THEN u ELSE SubSeq(u, 1, SetMin(stop) - 1)
IntOf(ip) == IF ip = <<>> THEN NaN ELSE Num(DigitsToInt(ip) * Scale)
UnsignedInt(u) == IntOf(LeadingDigits(u, {i \in 1..Len(u) : u[i] \notin Digits}))
SignedInt(t) ==
  IF t # <<>> /\ t[1] = "-" THEN Negate(UnsignedInt(Tail(t))) ELSE UnsignedInt(t)
SkipLeading(s, lead) == IF lead = {} THEN <<>> ELSE SubSeq(s, SetMin(lead), Len(s))
parseInt(x) ==
  IF x.t = "num" THEN Num(Trunc(x.v))
  ELSE IF x.t # "str" THEN NaN
  ELSE SignedInt(SkipLeading(x.v, {i \in 1..Len(x.v) : x.v[i] \notin Whitespace}))

\* ToBoolean; an object (a Date, a Buffer) is true.
Truthy(x) ==
  CASE x.t = "bool" -> x.v
    [] x.t = "num" -> x.v # 0
    [] x.t = "str" -> x.v # <<>>
    [] x.t \in {"date", "invaliddate", "buf"} -> TRUE
    [] OTHER -> FALSE

\* a || b
Or(a, b) == IF Truthy(a) THEN a ELSE b

\* a < b, a >= b, ... on values: ToNumber of both sides, false on NaN.
NumLess(x, y) == x.t = "num" /\ y.t = "num" /\ x.v < y.v
NumLessEq(x, y) == x.t = "num" /\ y.t = "num" /\ x.v <= y.v
Less(a, b) == NumLess(ToNumber(a), ToNumber(b))
LessEq(a, b) == NumLessEq(ToNumber(a), ToNumber(b))

IsInteger(x) == x.t = "num" /\ x.v % Scale = 0

\* Number.prototype.toString on the numbers of the model.
RECURSIVE NatToDigits(_)
NatToDigits(n) ==
  IF n < 10 THEN <<DigitChars[n + 1]>>
  ELSE NatToDigits(n \div 10) \o <<DigitChars[(n % 10) + 1]>>

RECURSIVE FracToDigits(_, _)
FracToDigits(f, width) ==
  IF f = 0 \/ width = 0 THEN <<>>
  ELSE <<DigitChars[(f \div (10 ^ (width - 1))) + 1]>>
         \o FracToDigits(f % (10 ^ (width - 1)), width - 1)

WithFraction(frac) == IF frac = <<>> THEN <<>> ELSE <<".">> \o frac
UnsignedToString(mag) ==
  NatToDigits(mag \div Scale) \o WithFraction(FracToDigits(mag % Scale, FracDigits))
NumberToString(n) ==
  IF n < 0 THEN <<"-">> \o UnsignedToString(0 - n) ELSE UnsignedToString(n)

\* ------------------------------------------------------------------------
\* Dates and buffers
\* ------------------------------------------------------------------------
\* A Date is kept as the first characters of its toISOString(), up to the
\* hour: <<"2","0","2","4","-","0","5","-","0","1","T","0","0">>.
Date(iso) == [t |-> "date", v |-> iso]
InvalidDate == [t |-> "invaliddate", v |-> 0]
\* A Buffer with the given content.
Buf(content) == [t |-> "buf", v |-> content]

TwoDigits(n) == <<DigitChars[(n \div 10) + 1], DigitChars[(n % 10) + 1]>>
DaysInMonth == <<31, 28, 31, 30, 31, 30, 31, 31, 30, 31, 30, 31>>

\* new Date(s) for a date-only string YYYY-MM-DD (midnight UTC); any other
\* string of the model is not a date.
IsCalendarDay(month, day) ==
  month \in 1..12 /\ day >= 1 /\ day <= DaysInMonth[IF month \in 1..12 THEN month ELSE 1]
DateOnly(s) ==
  IF /\ Len(s) = 10
     /\ s[5] = "-" /\ s[8] = "-"
     /\ AllDigits(SubSeq(s, 1, 4)) /\ AllDigits(SubSeq(s, 6, 7)) /\ AllDigits(SubSeq(s, 9, 10))
     /\ IsCalendarDay(DigitsToInt(SubSeq(s, 6, 7)), DigitsToInt(SubSeq(s, 9, 10)))
  THEN Date(s \o <<"T", "0", "0">>)
  ELSE InvalidDate
NewDate(x) ==
  CASE x.t = "str" -> DateOnly(x.v)
    [] x.t \in {"date", "invaliddate"} -> x
    [] OTHER -> InvalidDate

\* date.getHours() and date.setHours(h) for an hour that stays in the day.
GetHours(d) == DigitsToInt(SubSeq(d.v, 12, 13))
SetHours(d, h) ==
  IF d.t = "date" /\ h \in 0..23 THEN Date(SubSeq(d.v, 1, 11) \o TwoDigits(h)) ELSE InvalidDate

\* date.toISOString().slice(0, 10)
IsoDay(d) == Str(SubSeq(d.v, 1, 10))

\* ------------------------------------------------------------------------
\* The note cipher: crypto.createCipheriv('aes-256-cbc', key, iv) with
\* utf8 input and hex output, and its inverse. The block cipher itself is a
\* keyed byte substitution with a rotation; the chaining, the padding and
\* the encodings are those of the source.
\* ------------------------------------------------------------------------
BlockSize == 16
Quote == "\""
\* The printable ASCII characters, from code 32 (code 96 is kept as a word).
Ascii ==
  <<" ", "!", Quote, "#", "$", "%", "&", "'", "(", ")", "*", "+", ",", "-", ".", "/",
    "0", "1", "2", "3", "4", "5", "6", "7", "8", "9", ":", ";", "<", "=", ">", "?",
    "@", "A", "B", "C", "D", "E", "F", "G", "H", "I", "J", "K", "L", "M", "N", "O",
    "P", "Q", "R", "S", "T", "U", "V", "W", "X", "Y", "Z", "[", "\\", "]", "^", "_",
    "grave", "a", "b", "c", "d", "e", "f", "g", "h", "i", "j", "k", "l", "m", "n", "o",
    "p", "q", "r", "s", "t", "u", "v", "w", "x", "y", "z", "{", "|", "}", "~">>
\* The accented letters of the schema, in the order of their second UTF-8
\* byte after the lead byte 195.
Latin1 == <<"Ä", "Å", "Ö", "à", "á", "ä", "å", "è", "é", "ò", "ó", "ö">>
Latin1Second == <<132, 133, 150, 160, 161, 164, 165, 168, 169, 178, 179, 182>>
Latin1Lead == 195

Index(seq, x) == CHOOSE i \in 1..Len(seq) : seq[i] = x
Occurs(seq, x) == \E i \in 1..Len(seq) : seq[i] = x

\* The UTF-8 bytes of one character.
Utf8Char(c) ==
  IF Occurs(Ascii, c) THEN <<31 + Index(Ascii, c)>>
  ELSE IF c = "\t" THEN <<9>>
  ELSE IF c = "\n" THEN <<10>>
  ELSE <<Latin1Lead, Latin1Second[Index(Latin1, c)]>>

\* Buffer.from(s, 'utf8')
RECURSIVE Utf8Encode(_)
Utf8Encode(s) ==
  IF s = <<>> THEN <<>>
  ELSE IF Len(s) = 1 THEN Utf8Char(s[1])
  ELSE Utf8Encode(SubSeq(s, 1, Len(s) \div 2)) \o Utf8Encode(SubSeq(s, (Len(s) \div 2) + 1, Len(s)))

\* The character of one or two bytes; bytes that are no character of the
\* tables decode to the replacement character.
Replacement == "U+FFFD"
Utf8One(bytes) ==
  IF Len(bytes) = 2
  THEN IF bytes[1] = Latin1Lead /\ Occurs(Latin1Second, bytes[2])
       THEN Latin1[Index(Latin1Second, bytes[2])]
       ELSE Replacement
  ELSE IF bytes[1] = 9 THEN "\t"
  ELSE IF bytes[1] = 10 THEN "\n"
  ELSE IF bytes[1] >= 32 /\ bytes[1] <= 126 THEN Ascii[bytes[1] - 31]
  ELSE Replacement

IsContinuation(b) == b >= 128 /\ b < 192
\* A place to cut the bytes in two that does not cut a character.
CutAt(bytes, mid) == IF IsContinuation(bytes[mid + 1]) THEN mid + 1 ELSE mid

\* buffer.toString('utf8')
RECURSIVE Utf8Decode(_)
RECURSIVE Utf8DecodeCut(_, _)
Utf8DecodeCut(bytes, cut) ==
  Utf8Decode(SubSeq(bytes, 1, cut)) \o Utf8Decode(SubSeq(bytes, cut + 1, Len(bytes)))
Utf8Decode(bytes) ==
  IF bytes = <<>> THEN <<>>
  ELSE IF Len(bytes) = 1 \/ (Len(bytes) = 2 /\ IsContinuation(bytes[2])) THEN <<Utf8One(bytes)>>
  ELSE Utf8DecodeCut(bytes, CutAt(bytes, Len(bytes) \div 2))

HexChars == <<"0", "1", "2", "3", "4", "5", "6", "7", "8", "9", "a", "b", "c", "d", "e", "f">>
\* buffer.toString('hex')
HexEncode(bytes) ==
  [i \in 1..(2 * Len(bytes)) |->
     IF i % 2 = 1 THEN HexChars[(bytes[(i + 1) \div 2] \div 16) + 1]
     ELSE HexChars[(bytes[i \div 2] % 16) + 1]]
\* Buffer.from(s, 'hex')
HexDecode(s) ==
  [i \in 1..(Len(s) \div 2) |->
     16 * (Index(HexChars, s[2 * i - 1]) - 1) + (Index(HexChars, s[2 * i]) - 1)]

\* process.env.SECRET_ENCRYPTION_KEY and SECRET_ENCRYPTION_IV, decoded.
SecretKey == [j \in 1..BlockSize |-> (37 * j + 11) % 256]
SecretIv == [j \in 1..BlockSize |-> (91 * j + 5) % 256]

\* PKCS#7 padding and its removal.
PadLength(n) == BlockSize - (n % BlockSize)
Pad(bytes) == bytes \o [j \in 1..PadLength(Len(bytes)) |-> PadLength(Len(bytes))]
Unpad(bytes) == SubSeq(bytes, 1, Len(bytes) - bytes[Len(bytes)])
\* decipher.final() accepts the deciphered bytes: they end in a padding.
PaddingValid(bytes) ==
  /\ bytes # <<>>
  /\ bytes[Len(bytes)] \in 1..BlockSize
  /\ \A j \in (Len(bytes) - bytes[Len(bytes)] + 1)..Len(bytes) : bytes[j] = bytes[Len(bytes)]

\* The block cipher under a key, and its inverse.
Block(f) == SubSeq(f, 1, BlockSize)
EncryptBlock(key, block) ==
  Block([j \in 1..BlockSize |-> (block[(j % BlockSize) + 1] + key[j]) % 256])
DecryptBlock(key, block) ==
  Block([j \in 1..BlockSize |->
           (block[((j + BlockSize - 2) % BlockSize) + 1]
              + 256 - key[((j + BlockSize - 2) % BlockSize) + 1]) % 256])
\* The combination of a block with the previous one, and its inverse.
Xor(a, b) == Block([j \in 1..BlockSize |-> (a[j] + b[j]) % 256])
Unxor(a, b) == Block([j \in 1..BlockSize |-> (a[j] + 256 - b[j]) % 256])

\* Cipher block chaining over whole blocks: each block is combined with the
\* cipher block before it (the iv for the first) and then enciphered.
RECURSIVE EncryptChain(_, _, _)
LastBlock(bytes) == SubSeq(bytes, Len(bytes) - BlockSize + 1, Len(bytes))
\* The number of bytes in the first half of the blocks.
HalfBlocks(bytes) == BlockSize * (((Len(bytes) \div BlockSize) + 1) \div 2)
EncryptRest(key, head, rest) == head \o EncryptChain(key, LastBlock(head), rest)
EncryptChain(key, previous, bytes) ==
  IF bytes = <<>> THEN <<>>
  ELSE IF Len(bytes) = BlockSize THEN EncryptBlock(key, Xor(bytes, previous))
  ELSE EncryptRest(key, EncryptChain(key, previous, SubSeq(bytes, 1, HalfBlocks(bytes))),
                   SubSeq(bytes, HalfBlocks(bytes) + 1, Len(bytes)))
CbcEncrypt(key, iv, bytes) == EncryptChain(key, iv, bytes)

\* The i-th block of the bytes, and the block chained before it.
BlockAt(bytes, i) == SubSeq(bytes, BlockSize * (i - 1) + 1, BlockSize * i)
BlockBefore(iv, bytes, i) == IF i = 1 THEN iv ELSE BlockAt(bytes, i - 1)
DecryptAt(key, iv, bytes, i) ==
  Unxor(DecryptBlock(key, BlockAt(bytes, i)), BlockBefore(iv, bytes, i))
CbcDecrypt(key, iv, bytes) ==
  [n \in 1..Len(bytes) |->
     DecryptAt(key, iv, bytes, ((n - 1) \div BlockSize) + 1)[((n - 1) % BlockSize) + 1]]

\* The envelope {iv, encryptedData} and its JSON text.
Envelope(iv, encryptedData) == [iv |-> iv, encryptedData |-> encryptedData]
JsonIv == <<"{", Quote, "i", "v", Quote, ":", Quote>>
JsonData ==
  <<Quote, ",", Quote, "e", "n", "c", "r", "y", "p", "t", "e", "d", "D", "a", "t", "a",
    Quote, ":", Quote>>
JsonEnd == <<Quote, "}">>
\* JSON.stringify(envelope)
JsonStringify(envelope) ==
  JsonIv \o envelope.iv \o JsonData \o envelope.encryptedData \o JsonEnd
\* JSON.parse(text) of such a text; the iv ends at the next quote.
ParseFrom(text, ivEnd) ==
  Envelope(SubSeq(text, Len(JsonIv) + 1, ivEnd - 1),
           SubSeq(text, ivEnd + Len(JsonData), Len(text) - Len(JsonEnd)))
JsonParse(text) ==
  ParseFrom(text, SetMin({i \in (Len(JsonIv) + 1)..Len(text) : text[i] = Quote}))

\* The text is the JSON of an envelope; of any other text JSON.parse or the
\* decipher throws.
IsEnvelope(text) ==
  /\ Len(text) >= Len(JsonIv) + Len(JsonData) + Len(JsonEnd)
  /\ SubSeq(text, 1, Len(JsonIv)) = JsonIv
  /\ Occurs(SubSeq(text, Len(JsonIv) + 1, Len(text)), Quote)
  /\ JsonStringify(JsonParse(text)) = text

\* The text is hexadecimal digits, in pairs.
IsHex(text) == Len(text) % 2 = 0 /\ \A i \in 1..Len(text) : Occurs(HexChars, text[i])

\* encryptPrivateNote(privateNote)
EncryptPrivateNote(privateNote) ==
  Envelope(HexEncode(SecretIv),
           HexEncode(CbcEncrypt(SecretKey, SecretIv, Pad(Utf8Encode(privateNote)))))

\* #decryptPrivateNote(privateNote)
DecryptEnvelope(envelope) ==
  Utf8Decode(Unpad(CbcDecrypt(SecretKey, HexDecode(envelope.iv),
                                HexDecode(envelope.encryptedData))))
DecryptPrivateNote(privateNote) == DecryptEnvelope(JsonParse(privateNote))

\* The deciphered bytes of an envelope, before the padding is taken off.
Deciphered(envelope) ==
  CbcDecrypt(SecretKey, HexDecode(envelope.iv), HexDecode(envelope.encryptedData))
DecipherThrows(envelope) ==
  \/ ~IsHex(envelope.iv) \/ Len(envelope.iv) # 2 * BlockSize
  \/ ~IsHex(envelope.encryptedData)
  \/ Len(envelope.encryptedData) % (2 * BlockSize) # 0
  \/ ~PaddingValid(Deciphered(envelope))
\* #decryptPrivateNote throws: JSON.parse does, or createDecipheriv (the iv
\* is not 16 bytes), or decipher.final() (the data is not whole blocks that
\* end in a padding).
DecryptThrows(privateNote) ==
  IF IsEnvelope(privateNote) THEN DecipherThrows(JsonParse(privateNote)) ELSE TRUE

\* ------------------------------------------------------------------------
\* Mongoose casting (SchemaNumber, SchemaBoolean, SchemaString with the
\* trim setter of the Puzzle schema)
\* ------------------------------------------------------------------------
NumberOrCastError(n) == IF n.t = "nan" THEN CastError ELSE n
CastNumber(x) ==
  CASE IsNullish(x) -> x
    [] x.t = "str" -> IF x.v = <<>> THEN Null ELSE NumberOrCastError(ToNumber(x))
    [] x.t = "bool" -> ToNumber(x)
    [] x.t = "num" -> x
    [] OTHER -> CastError

ConvertToTrue == {Bool(TRUE), Str(<<"t", "r", "u", "e">>), Lit(1), Str(<<"1">>),
                  Str(<<"y", "e", "s">>)}
ConvertToFalse == {Bool(FALSE), Str(<<"f", "a", "l", "s", "e">>), Lit(0), Str(<<"0">>),
                   Str(<<"n", "o">>)}

CastBoolean(x) ==
  IF x \in ConvertToTrue THEN Bool(TRUE)
  ELSE IF x \in ConvertToFalse THEN Bool(FALSE)
  ELSE IF IsNullish(x) THEN x
  ELSE CastError

CastString(x) ==
  CASE IsNullish(x) -> x
    [] x.t = "str" -> Str(Trim(x.v))
    [] x.t = "num" -> Str(NumberToString(x.v))
    [] x.t = "bool" -> Str(IF x.v THEN <<"t", "r", "u", "e">> ELSE <<"f", "a", "l", "s", "e">>)
    [] OTHER -> CastError

\* SchemaDate: '' is null, an invalid date fails to cast.
DateOrCastError(d) == IF d.t = "date" THEN d ELSE CastError
CastDate(x) ==
  CASE IsNullish(x) -> x
    [] x = Str(<<>>) -> Null
    [] OTHER -> DateOrCastError(NewDate(x))

\* SchemaBuffer
CastBuffer(x) == IF IsNullish(x) \/ x.t = "buf" THEN x ELSE CastError

\* ------------------------------------------------------------------------
\* The Puzzle schema (models/puzzle.js)
\* ------------------------------------------------------------------------
MaxTitleLength == 100
MinPieces == 2
MaxPieces == 20000
MinSize == 1
MaxSize == 100000
MaxLocationLength == 100
MaxLentOutToLength == 50
MaxManufacturerLength == 50
MaxPrivateNoteLength == 1000
MaxSharedNoteLength == 1000

Letters ==
  {"a", "b", "c", "d", "e", "f", "g", "h", "i", "j", "k", "l", "m",
   "n", "o", "p", "q", "r", "s", "t", "u", "v", "w", "x", "y", "z",
   "A", "B", "C", "D", "E", "F", "G", "H", "I", "J", "K", "L", "M",
   "N", "O", "P", "Q", "R", "S", "T", "U", "V", "W", "X", "Y", "Z"}
Accented == {"å", "ä", "ö", "Å", "Ä", "Ö", "é", "ó", "è", "ò", "á", "à"}
\* The character class of the title validator.
TitleChars == Letters \cup Digits \cup Accented \cup {"-", ".", ",", ":", ";", "!", " "}

\* Variant: the pattern accepts any non-empty string.
TitleRegexTestAny(s) == Len(s) >= 1

\* /^[a-zA-Z0-9åäöÅÄÖéóèòáà\-.,:;! ]+$/.test(value)
TitleRegexTest(s) == Len(s) >= 1 /\ \A i \in 1..Len(s) : s[i] \in TitleChars

\* The paths of a document that the model keeps.
ValuePaths ==
  {"title", "piecesNumber", "sizeHeight", "sizeWidth", "manufacturer", "lastPlayed",
   "location", "complete", "missingPiecesNumber", "privateNote", "sharedNote",
   "isPrivate", "isLentOut", "lentOutToString", "image"}

\* Mongoose casts a value when it is set on a path.
CastPath(path, x) ==
  CASE path \in {"title", "manufacturer", "location", "privateNote", "sharedNote",
                 "lentOutToString"} -> CastString(x)
    [] path \in {"piecesNumber", "sizeHeight", "sizeWidth", "missingPiecesNumber"} ->
         CastNumber(x)
    [] path \in {"complete", "isPrivate", "isLentOut"} -> CastBoolean(x)
    [] path = "lastPlayed" -> CastDate(x)
    [] path = "image" -> CastBuffer(x)

\* title: required, validate, minLength, maxLength; "" when the path is valid,
\* else the kind of the first validator that fails.
TitleValueError(value) ==
  IF ~(IsStr(value) /\ value.v # <<>>) THEN "required"
  ELSE IF ~TitleRegexTest(value.v) THEN "validate"
  ELSE IF Len(value.v) < 1 THEN "minLength"
  ELSE IF Len(value.v) > MaxTitleLength THEN "maxLength"
  ELSE ""
TitleError(doc) == TitleValueError(doc.title)

\* piecesNumber.validate.validator
PiecesNumberValid(doc) ==
  LET value == doc.piecesNumber
  IN value = Null \/ (LessEq(Lit(MinPieces), value) /\ LessEq(value, Lit(MaxPieces)))

\* sizeHeight.validate.validator
SizeHeightValid(doc) ==
  LET value == doc.sizeHeight
  IN \/ /\ LessEq(Lit(MinSize), value) /\ LessEq(value, Lit(MaxSize))
        /\ ~(Truthy(value) /\ ~Truthy(doc.sizeWidth))
     \/ (~Truthy(value) /\ ~Truthy(doc.sizeWidth))

\* sizeWidth.validate.validator
SizeWidthValid(doc) ==
  LET value == doc.sizeWidth
  IN \/ /\ LessEq(Lit(MinSize), value) /\ LessEq(value, Lit(MaxSize))
        /\ ~(Truthy(value) /\ ~Truthy(doc.sizeHeight))
     \/ (~Truthy(value) /\ ~Truthy(doc.sizeHeight))

\* location: maxLength
LocationValid(doc) ==
  doc.location = Null \/ Len(doc.location.v) <= MaxLocationLength

\* Variant: complete has no validator.
CompleteValidAlways(doc) == TRUE

\* complete.validate.validator
CompleteValid(doc) ==
  ~(doc.complete = Bool(FALSE) /\ ~Truthy(doc.missingPiecesNumber))

\* Variant: the upper limit of missingPiecesNumber is inclusive.
MissingPiecesNumberValidInclusive(doc) ==
  doc.missingPiecesNumber = Null
    \/ (LessEq(Lit(1), doc.missingPiecesNumber)
          /\ LessEq(doc.missingPiecesNumber, doc.piecesNumber))

\* missingPiecesNumber.validate.validator
MissingPiecesNumberValid(doc) ==
  LET value == doc.missingPiecesNumber
  IN value = Null \/ (LessEq(Lit(1), value) /\ Less(value, doc.piecesNumber))

\* isLentOut.validate.validator
IsLentOutValid(doc) ==
  ~(doc.isLentOut = Bool(TRUE) /\ ~Truthy(doc.lentOutToString))

\* lentOutToString: maxLength
LentOutToStringValid(doc) ==
  doc.lentOutToString = Null \/ Len(doc.lentOutToString.v) <= MaxLentOutToLength

\* manufacturer, privateNote, sharedNote: maxLength
ManufacturerValid(doc) ==
  doc.manufacturer = Null \/ Len(doc.manufacturer.v) <= MaxManufacturerLength
PrivateNoteValid(doc) ==
  doc.privateNote = Null \/ Len(doc.privateNote.v) <= MaxPrivateNoteLength
SharedNoteValid(doc) ==
  doc.sharedNote = Null \/ Len(doc.sharedNote.v) <= MaxSharedNoteLength

\* The validate function of a path; lastPlayed, isPrivate and image have none.
PathValid(doc, path) ==
  CASE path = "piecesNumber" -> PiecesNumberValid(doc)
    [] path = "manufacturer" -> ManufacturerValid(doc)
    [] path = "privateNote" -> PrivateNoteValid(doc)
    [] path = "sharedNote" -> SharedNoteValid(doc)
    [] path \in {"lastPlayed", "isPrivate", "image"} -> TRUE
    [] path = "sizeHeight" -> SizeHeightValid(doc)
    [] path = "sizeWidth" -> SizeWidthValid(doc)
    [] path = "location" -> LocationValid(doc)
    [] path = "complete" -> CompleteValid(doc)
    [] path = "missingPiecesNumber" -> MissingPiecesNumberValid(doc)
    [] path = "isLentOut" -> IsLentOutValid(doc)
    [] path = "lentOutToString" -> LentOutToStringValid(doc)

\* The kind of error of one path, "" when the path passes. Validators other
\* than required are not run on undefined.
PathError(doc, path) ==
  IF path = "title" THEN TitleError(doc)
  ELSE IF doc[path] = Undef THEN ""
  ELSE IF PathValid(doc, path) THEN "" ELSE "validate"

\* Document.prototype.validate as save() runs it: the paths whose set failed
\* to cast keep their cast error, every other path runs its validators.
\* The result is the set of [path, kind] of error.errors.
ValidationErrors(doc, castFailed) ==
  {[path |-> p, kind |-> "cast"] : p \in castFailed}
    \cup {e \in {[path |-> p, kind |-> PathError(doc, p)] : p \in ValuePaths \ castFailed} :
            e.kind # ""}

\* schema.pre('save'): complete follows missingPiecesNumber, and a private
\* note is replaced by the JSON text of its envelope.
DeriveComplete(doc) ==
  IF Less(Lit(0), doc.missingPiecesNumber)
  THEN [doc EXCEPT !.complete = Bool(FALSE)]
  ELSE doc
\* Variant: the private note is saved as it is.
SealNoteSkipped(doc) == doc
SealNote(doc) ==
  IF Truthy(doc.privateNote)
  THEN [doc EXCEPT !.privateNote = Str(JsonStringify(EncryptPrivateNote(@.v)))]
  ELSE doc
\* Variant: the note is sealed again on the way.
PreSaveSealedTwice(doc) == SealNote(SealNote(DeriveComplete(doc)))
PreSave(doc) == SealNote(DeriveComplete(doc))

\* ------------------------------------------------------------------------
\* PuzzleController (controllers/puzzle-controller.js)
\* ------------------------------------------------------------------------
StrTrue == Str(<<"t", "r", "u", "e">>)
StrFalse == Str(<<"f", "a", "l", "s", "e">>)
EmptyStr == Str(<<>>)

NumberFields == {"piecesNumber", "sizeHeight", "sizeWidth", "missingPiecesNumber"}

\* #isNumberFieldNumber: the number fields present in the body whose value
\* is not a number; the handler throws for the first of them in the body's
\* key order.
NotNumberFields(body) == {f \in NumberFields : body[f] # Undef /\ isNaN(body[f])}

\* An image is kept as <<format, width, picture>>. sharp(...).resize({ width:
\* 500 }).png() gives the picture as a PNG of width 500.
PngWidth == <<"5", "0", "0">>
ToPng(buffer) == Buf(<<"png", PngWidth, buffer.v[3]>>)
\* #convertImageToPng
ConvertImageToPng(file) == IF Truthy(file) THEN ToPng(file) ELSE Null
WithImageBinary(puzzle) == [puzzle EXCEPT !.imageBinary = ConvertImageToPng(puzzle.file)]

\* #adjustTimeZone
AddHours(date, hours) ==
  IF date.t = "date" THEN SetHours(date, GetHours(date) + hours) ELSE InvalidDate
AdjustTimeZone(date) == AddHours(NewDate(date), 2)
AdjustLastPlayed(puzzle) ==
  IF Truthy(puzzle.lastPlayed)
  THEN [puzzle EXCEPT !.lastPlayed = AdjustTimeZone(@)]
  ELSE puzzle

\* #updatePuzzleInput after #isNumberFieldNumber passed, statement by
\* statement: the rewritten body and the error thrown ("" when none).
\* Variant: the body is left as the caller sent it when piecesNumber is absent.
ForceCompleteSkipped(puzzle) == puzzle
ForceComplete(puzzle) ==
  IF ~Truthy(puzzle.piecesNumber)
  THEN [puzzle EXCEPT !.complete = Bool(TRUE), !.missingPiecesNumber = EmptyStr]
  ELSE puzzle
ClearMissing(puzzle) ==
  IF puzzle.complete = StrTrue
  THEN [puzzle EXCEPT !.missingPiecesNumber = EmptyStr]
  ELSE puzzle
ClearLentOutTo(puzzle) ==
  IF puzzle.isLentOut = StrFalse
  THEN [puzzle EXCEPT !.lentOutToString = Null]
  ELSE puzzle
Thrown(puzzle) ==
  IF puzzle.isLentOut = StrTrue /\ ~Truthy(puzzle.lentOutToString)
  THEN "lentOutToStringRequired"
  ELSE IF ~Truthy(puzzle.title) THEN "titleRequired"
  ELSE IF /\ ~isNaN(puzzle.piecesNumber)
          /\ ~isNaN(puzzle.missingPiecesNumber)
          /\ Less(parseInt(puzzle.piecesNumber), parseInt(puzzle.missingPiecesNumber))
  THEN "missingExceedsPieces"
  ELSE ""
Checked(puzzle) == [puzzle |-> puzzle, thrown |-> Thrown(puzzle)]
UpdatePuzzleInput(body) ==
  Checked(ClearLentOutTo(ClearMissing(ForceComplete(AdjustLastPlayed(WithImageBinary(body))))))

\* #handleAddOrUpdateError on a validation error: one message per failed
\* path, or the single date message when the text has 'Invalid Date'.
ErrorMessages(invalid) ==
  IF [path |-> "lastPlayed", kind |-> "cast"] \in invalid
  THEN {[path |-> "lastPlayed", kind |-> "invalidDate"]}
  ELSE invalid

\* A document with no path set.
EmptyDoc ==
  [title |-> Undef, piecesNumber |-> Undef, sizeHeight |-> Undef, sizeWidth |-> Undef,
   manufacturer |-> Undef, lastPlayed |-> Undef, location |-> Undef, complete |-> Undef,
   missingPiecesNumber |-> Undef, privateNote |-> Undef, sharedNote |-> Undef,
   isPrivate |-> Undef, isLentOut |-> Undef, lentOutToString |-> Undef, image |-> Undef,
   owner |-> ""]

\* Schema defaults, applied when a document is constructed or hydrated.
Defaults == [isPrivate |-> Bool(TRUE), isLentOut |-> Bool(FALSE), image |-> Null]
ApplyDefaults(doc) ==
  [p \in DOMAIN doc |->
     IF p \in DOMAIN Defaults /\ doc[p] = Undef THEN Defaults[p] ELSE doc[p]]

\* Sets the given raw values on a document: each is cast; a value that fails
\* to cast leaves the path as it was and marks the path invalid.
SetCast(doc, cast) ==
  [doc |-> [p \in DOMAIN doc |->
              IF p \in ValuePaths /\ cast[p] # CastError THEN cast[p] ELSE doc[p]],
   castFailed |-> {p \in ValuePaths : cast[p] = CastError}]
SetPaths(doc, raw) == SetCast(doc, [p \in ValuePaths |-> CastPath(p, raw[p])])

\* new Puzzle({...}) of addPuzzle: the optional paths are given only when
\* their input is truthy.
NewPuzzleValues(puzzleInput) ==
  [p \in ValuePaths |->
     IF p = "image" THEN puzzleInput.imageBinary
     ELSE IF p \in {"title", "lastPlayed", "complete", "privateNote", "sharedNote",
                    "isLentOut", "isPrivate"}
     THEN puzzleInput[p]
     ELSE IF Truthy(puzzleInput[p]) THEN puzzleInput[p] ELSE Undef]

\* An undefined value does not replace a default while constructing.
Construct(base, raw) ==
  SetPaths(base, [p \in ValuePaths |->
                    IF raw[p] = Undef /\ base[p] # Undef THEN base[p] ELSE raw[p]])

\* Variant: the owner among the fields of the body is taken when there is one.
NewPuzzleOwnerFromBody(puzzleInput, owner) ==
  Construct(ApplyDefaults([EmptyDoc EXCEPT
                             !.owner = IF puzzleInput.owner = Undef THEN owner
                                       ELSE puzzleInput.owner.v]),
            NewPuzzleValues(puzzleInput))
\* new Puzzle({ ..., owner: req.user.id })
NewPuzzle(puzzleInput, owner) ==
  Construct(ApplyDefaults([EmptyDoc EXCEPT !.owner = owner]), NewPuzzleValues(puzzleInput))

\* The assignments of updatePuzzle on the loaded document; lentOutToString
\* is assigned last, from the isLentOut the document then holds.
SetLentOutTo(first, cast) ==
  IF cast = CastError
  THEN [first EXCEPT !.castFailed = @ \cup {"lentOutToString"}]
  ELSE [first EXCEPT !.doc.lentOutToString = cast]

AssignLentOutTo(first, puzzle, puzzleInput) ==
  SetLentOutTo(first,
    CastPath("lentOutToString",
      IF ~Truthy(first.doc.isLentOut) THEN Null
      ELSE Or(puzzleInput.lentOutToString, puzzle.lentOutToString)))

UpdatedPuzzle(puzzle, puzzleInput) ==
  AssignLentOutTo(
    SetPaths(puzzle,
      [p \in ValuePaths |->
         CASE p = "title" -> Or(puzzleInput.title, puzzle.title)
           [] p \in {"piecesNumber", "sizeHeight", "sizeWidth", "manufacturer",
                     "lastPlayed", "location", "privateNote", "sharedNote"} ->
                Or(puzzleInput[p], EmptyStr)
           [] p = "missingPiecesNumber" -> Or(puzzleInput[p], Null)
           [] p \in {"complete", "isPrivate", "isLentOut"} -> puzzleInput[p]
           [] p = "lentOutToString" -> puzzle.lentOutToString
           [] p = "image" -> Or(puzzleInput.imageBinary, puzzle.image)]),
    puzzle, puzzleInput)

\* The paths save() writes for a loaded document: the modified paths, and
\* the paths that got a default when the document was loaded and still hold
\* a value.
WrittenPaths(loaded, defaulted, doc) ==
  {p \in ValuePaths : doc[p] # loaded[p] \/ (p \in defaulted /\ ~IsNullish(doc[p]))}

\* An ObjectId is its number; _id.toHexString() has 24 characters.
ObjectIdLength == 24
ToHexString(n) == Rep("a", ObjectIdLength - 1) \o <<HexChars[(n % 16) + 1]>>
UpperHex == <<"A", "B", "C", "D", "E", "F">>
\* Variant: the length of the id is all that is tested.
IdMatchLength(id) == Len(id) = ObjectIdLength
\* id.match(/^[0-9a-fA-F]{24}$/)
IdMatch(id) ==
  /\ Len(id) = ObjectIdLength
  /\ \A i \in 1..Len(id) : Occurs(HexChars, id[i]) \/ Occurs(UpperHex, id[i])
\* The cast of a string to an ObjectId reads its hex digits in either case.
ObjectIdOf(id) ==
  [i \in 1..Len(id) |->
     IF Occurs(UpperHex, id[i]) THEN HexChars[10 + Index(UpperHex, id[i])] ELSE id[i]]

\* #transformPuzzleData: the record without its image, with its id, the
\* image (or the placeholder) as a data URL, the note decrypted and the day
\* of lastPlayed.
NullImage == Buf(<<"png", PngWidth, "null-puzzle">>)
ImageUrl(buffer) == [t |-> "url", v |-> buffer.v]
TransformPuzzleData(puzzle, id) ==
  [p \in (DOMAIN puzzle \ {"image"}) \cup {"id", "imageUrl"} |->
     CASE p = "id" -> Str(ToHexString(id))
       [] p = "imageUrl" -> ImageUrl(IF puzzle.image # Null THEN puzzle.image ELSE NullImage)
       [] p = "privateNote" /\ Truthy(puzzle.privateNote) ->
            Str(DecryptPrivateNote(puzzle.privateNote.v))
       [] p = "lastPlayed" /\ Truthy(puzzle.lastPlayed) -> IsoDay(puzzle.lastPlayed)
       [] OTHER -> puzzle[p]]

\* One element of the list of getAllPuzzles: puzzle.toObject() of a document
\* found without its owner, with imageUrl when it has an image.
ListedPuzzle(puzzle, id) ==
  [p \in (DOMAIN puzzle \ {"owner"}) \cup {"id", "imageUrl"} |->
     CASE p = "id" -> Str(ToHexString(id))
       [] p = "imageUrl" -> IF puzzle.image = Null THEN Undef ELSE ImageUrl(puzzle.image)
       [] OTHER -> puzzle[p]]

\* ------------------------------------------------------------------------
\* State
\* ------------------------------------------------------------------------
\* The error handler of the application (server.js): an error with one of
\* the statuses it names is answered with that status and its message; any
\* other error is answered 500 with its message, or, in development, with
\* its own status (500 when it has none) and a fixed text.
NamedStatuses == {400, 401, 403, 404, 405}
Modes == {"development", "production"}
ErrorHandler(mode, err) ==
  IF err.status \in NamedStatuses
  THEN [status |-> err.status, body |-> [message |-> err.message]]
  ELSE IF mode # "development"
  THEN [status |-> 500, body |-> [message |-> err.message]]
  ELSE [status |-> IF err.status # 0 THEN err.status ELSE 500,
        body |-> [text |-> "Internal Server Error"]]
\* An exception as thrown: it has a message and no status.
Exception(message) == [status |-> 0, message |-> message]

VARIABLES
  store,    \* the puzzles collection: _id -> stored document
  nextId,   \* the next _id the collection hands out
  req,      \* the requests in flight: slot -> request
  users,    \* the users collection, in the order of insertion
  env       \* app.get('env'), the mode of the deployment

vars == <<store, nextId, req, users, env>>

Users == {"anna", "bo"}
Ids == 1..MaxRecords

\* A request's fields: req.body, with the uploaded file (req.file) and the
\* imageBinary that #updatePuzzleInput adds to the body. A caller may put an
\* owner and an id among the fields.
EmptyBody ==
  [title |-> Undef, piecesNumber |-> Undef, sizeHeight |-> Undef, sizeWidth |-> Undef,
   manufacturer |-> Undef, lastPlayed |-> Undef, location |-> Undef, complete |-> Undef,
   missingPiecesNumber |-> Undef, privateNote |-> Undef, sharedNote |-> Undef,
   isPrivate |-> Undef, isLentOut |-> Undef, lentOutToString |-> Undef,
   owner |-> Undef, id |-> Undef, file |-> Undef, imageBinary |-> Undef]

NoError == [path |-> "", kind |-> ""]
\* A request without an authorization header.
NoHeader == [present |-> FALSE, words |-> <<>>]

\* A request: the operation, the caller, the :id of the URL (param) and the
\* body; the document loaded for it and its _id; whether the collection was
\* queried for it; the status, the errors and the data of its response.
Idle ==
  [pc |-> "idle", op |-> "", user |-> "", param |-> <<>>, id |-> 0, body |-> EmptyBody,
   puzzle |-> EmptyDoc, defaulted |-> {}, queried |-> FALSE, status |-> 0, errors |-> {},
   thrown |-> "", response |-> <<>>, authorization |-> NoHeader]

\* The response of a request: its status and, for a 400, the errors.
Done(r, status, errors) ==
  [r EXCEPT !.pc = "done", !.status = status, !.errors = errors]
\* The response to an exception that reaches the error handler as thrown.
Fault(r, message) ==
  [r EXCEPT !.pc = "done", !.thrown = message,
            !.status = ErrorHandler(env, Exception(message)).status,
            !.response = ErrorHandler(env, Exception(message)).body]

\* A request arrives with its parsed body (express.json / urlencoded) and
\* the identity of the caller.
Receive(slot, op, user, id, body) ==
  /\ req[slot].pc = "idle"
  /\ op = "add" => nextId <= MaxRecords
  /\ req' = [req EXCEPT ![slot] =
               [Idle EXCEPT !.pc = "received", !.op = op, !.user = user,
                            !.param = id, !.body = body]]
  /\ UNCHANGED <<store, nextId, users, env>>

\* POST /puzzles
AddPuzzle ==
  \E slot \in DOMAIN req :
    LET r == req[slot]
        input == UpdatePuzzleInput(r.body)
        new == NewPuzzle(input.puzzle, r.user)
        invalid == ValidationErrors(new.doc, new.castFailed)
    IN /\ r.pc = "received"
       /\ r.op = "add"
       /\ IF NotNumberFields(r.body) # {}
          THEN /\ \E f \in NotNumberFields(r.body) :
                    req' = [req EXCEPT ![slot] =
                              Done(r, 400, {[path |-> f, kind |-> "notNumber"]})]
               /\ UNCHANGED <<store, nextId, users, env>>
          ELSE IF input.thrown # ""
          THEN /\ req' = [req EXCEPT ![slot] =
                            Done(r, 400, {[path |-> "", kind |-> input.thrown]})]
               /\ UNCHANGED <<store, nextId, users, env>>
          ELSE IF invalid # {}
          THEN /\ req' = [req EXCEPT ![slot] = Done(r, 400, ErrorMessages(invalid))]
               /\ UNCHANGED <<store, nextId, users, env>>
          ELSE /\ nextId <= MaxRecords
               /\ store' = [i \in DOMAIN store \cup {nextId} |->
                              IF i = nextId THEN PreSave(new.doc) ELSE store[i]]
               /\ nextId' = nextId + 1
               /\ UNCHANGED <<users, env>>
               /\ req' = [req EXCEPT ![slot] =
                            [Done(r, 201, {}) EXCEPT
                               !.id = nextId, !.queried = TRUE,
                               !.response = [message |-> "Puzzle added successfully."]]]

\* The routes of /puzzles/:id: the operations that take an id, which
\* loadPuzzle resolves, and those of them that authorizeUser guards.
IdRoutes == {"read", "update", "delete"}
OwnerRoutes == {"update", "delete"}

\* Puzzle.findOne({ _id: id }): the documents with that _id.
FindOne(id) == {i \in DOMAIN store : ToHexString(i) = ObjectIdOf(id)}

\* The document as Mongoose hands it over: defaults applied.
Loaded(r, i) ==
  [r EXCEPT !.pc = "loaded", !.id = i, !.queried = TRUE,
            !.puzzle = ApplyDefaults(store[i]),
            !.defaulted = {p \in ValuePaths : ApplyDefaults(store[i])[p] # store[i][p]}]

\* router.param('id'): loadPuzzle
LoadPuzzle ==
  \E slot \in DOMAIN req :
    LET r == req[slot]
    IN /\ r.pc = "received"
       /\ r.op \in IdRoutes
       /\ IF ~IdMatch(r.param)
          THEN req' = [req EXCEPT ![slot] =
                         Done(r, 400, {[path |-> "id", kind |-> "invalidId"]})]
          ELSE IF FindOne(r.param) = {}
          THEN req' = [req EXCEPT ![slot] = [Done(r, 404, {}) EXCEPT !.queried = TRUE]]
          ELSE \E i \in FindOne(r.param) : req' = [req EXCEPT ![slot] = Loaded(r, i)]
       /\ UNCHANGED <<store, nextId, users, env>>

\* Variant: every caller passes for the owner.
IsOwnerAnyone(puzzle, user) == TRUE
\* req.puzzle.owner.toString() !== req.user.id
IsOwner(puzzle, user) == puzzle.owner = user

\* authorizeUser
AuthorizeUser ==
  \E slot \in DOMAIN req :
    LET r == req[slot]
    IN /\ r.pc = "loaded"
       /\ r.op \in OwnerRoutes
       /\ IF ~IsOwner(r.puzzle, r.user)
          THEN req' = [req EXCEPT ![slot] = Done(r, 403, {})]
          ELSE req' = [req EXCEPT ![slot] = [r EXCEPT !.pc = "authorized"]]
       /\ UNCHANGED <<store, nextId, users, env>>

\* GET /puzzles/:id
GetPuzzle ==
  \E slot \in DOMAIN req :
    LET r == req[slot]
    IN /\ r.pc = "loaded"
       /\ r.op = "read"
       /\ IF Truthy(r.puzzle.privateNote) /\ DecryptThrows(r.puzzle.privateNote.v)
          THEN req' = [req EXCEPT ![slot] = Fault(r, "bad decrypt")]
          ELSE req' = [req EXCEPT ![slot] =
                         [Done(r, 200, {}) EXCEPT
                            !.response = TransformPuzzleData(r.puzzle, r.id)]]
       /\ UNCHANGED <<store, nextId, users, env>>

\* Variant: the documents of every owner are found.
FindAny(owner) == DOMAIN store
\* Puzzle.find({ owner }): the _ids of the documents of that owner.
Find(owner) == {i \in DOMAIN store : store[i].owner = owner}

\* GET /puzzles
GetAllPuzzles ==
  \E slot \in DOMAIN req :
    LET r == req[slot]
    IN /\ r.pc = "received"
       /\ r.op = "readAll"
       /\ req' = [req EXCEPT ![slot] =
                    [Done(r, 200, {}) EXCEPT
                       !.queried = TRUE,
                       !.response = {ListedPuzzle(ApplyDefaults(store[i]), i) :
                                       i \in Find(r.user)}]]
       /\ UNCHANGED <<store, nextId, users, env>>

\* Variant: save() inserts the document when its _id is gone.
UpdateOneUpsert(id, written, saved) ==
  [i \in DOMAIN store \cup {id} |->
     IF i # id THEN store[i]
     ELSE IF i \notin DOMAIN store THEN saved
     ELSE [p \in DOMAIN saved |-> IF p \in written THEN saved[p] ELSE store[i][p]]]
\* save() of a loaded document: updateOne({ _id }, { $set: the written paths }),
\* which matches nothing when the document is gone.
UpdateOne(id, written, saved) ==
  [i \in DOMAIN store |->
     IF i # id THEN store[i]
     ELSE [p \in DOMAIN saved |-> IF p \in written THEN saved[p] ELSE store[i][p]]]

\* Variant: save() writes before it validates.
SaveUnvalidated(id, invalid, written, saved) == UpdateOne(id, written, saved)
\* puzzle.save(): validation comes first, and a document that fails it is
\* not written.
Save(id, invalid, written, saved) ==
  IF invalid # {} THEN store ELSE UpdateOne(id, written, saved)

\* PUT /puzzles/:id
UpdatePuzzle ==
  \E slot \in DOMAIN req :
    LET r == req[slot]
        input == UpdatePuzzleInput(r.body)
        upd == UpdatedPuzzle(r.puzzle, input.puzzle)
        invalid == ValidationErrors(upd.doc, upd.castFailed)
        saved == PreSave(upd.doc)
        written == WrittenPaths(r.puzzle, r.defaulted, saved)
    IN /\ r.pc = "authorized"
       /\ r.op = "update"
       /\ IF NotNumberFields(r.body) # {}
          THEN /\ \E f \in NotNumberFields(r.body) :
                    req' = [req EXCEPT ![slot] =
                              Done(r, 400, {[path |-> f, kind |-> "notNumber"]})]
               /\ UNCHANGED <<store, nextId, users, env>>
          ELSE IF input.thrown # ""
          THEN /\ req' = [req EXCEPT ![slot] =
                            Done(r, 400, {[path |-> "", kind |-> input.thrown]})]
               /\ UNCHANGED <<store, nextId, users, env>>
          ELSE /\ store' = Save(r.id, invalid, written, saved)
               /\ IF invalid # {}
                  THEN req' = [req EXCEPT ![slot] = Done(r, 400, ErrorMessages(invalid))]
                  ELSE IF r.id \notin DOMAIN store
                  THEN \* save() finds no document to update: DocumentNotFoundError
                       req' = [req EXCEPT ![slot] = Fault(r, "No document found for query")]
                  ELSE req' = [req EXCEPT ![slot] =
                                 [Done(r, 200, {}) EXCEPT
                                    !.response = [message |-> "Puzzle updated successfully."]]]
               /\ UNCHANGED <<nextId, users, env>>

\* Variant: the count of deleteOne is taken to be 1.
DeletedCountOne(id) == 1
\* Puzzle.deleteOne({ _id }).deletedCount
DeletedCount(id) == IF id \in DOMAIN store THEN 1 ELSE 0

\* DELETE /puzzles/:id
DeletePuzzle ==
  \E slot \in DOMAIN req :
    LET r == req[slot]
    IN /\ r.pc = "authorized"
       /\ r.op = "delete"
       /\ store' = [i \in DOMAIN store \ {r.id} |-> store[i]]
       /\ IF DeletedCount(r.id) = 1
          THEN req' = [req EXCEPT ![slot] = Done(r, 204, {})]
          ELSE req' = [req EXCEPT ![slot] =
                         Fault(r, "An unknown error occured. Please try again.")]
       /\ UNCHANGED <<nextId, users, env>>

\* What may happen to a stored envelope outside the application: its text
\* is cut short, a digit of its first cipher block is changed, or it was
\* written while another key was configured.
OtherKey == [j \in 1..BlockSize |-> (53 * j + 7) % 256]
FlippedDigit(c) ==
  HexChars[IF Index(HexChars, c) % 2 = 1 THEN Index(HexChars, c) + 1 ELSE Index(HexChars, c) - 1]
FirstDataDigit == Len(JsonIv) + (2 * BlockSize) + Len(JsonData) + 2
Damages == {"cut", "flipped", "rekeyed"}
Damaged(text, damage) ==
  CASE damage = "cut" -> SubSeq(text, 1, Len(text) - Len(JsonEnd))
    [] damage = "flipped" -> [text EXCEPT ![FirstDataDigit] = FlippedDigit(@)]
    [] damage = "rekeyed" ->
         JsonStringify(Envelope(JsonParse(text).iv,
           HexEncode(CbcEncrypt(OtherKey, SecretIv,
                                Deciphered(JsonParse(text))))))
\* The envelope of a record is damaged.
Damage ==
  \E i \in DOMAIN store, damage \in Damages :
    /\ \A slot \in DOMAIN req : req[slot].pc = "idle"
    /\ IsStr(store[i].privateNote)
    /\ IsEnvelope(store[i].privateNote.v)
    /\ ~DecryptThrows(store[i].privateNote.v)
    /\ store' = [store EXCEPT ![i].privateNote = Str(Damaged(@.v, damage))]
    /\ UNCHANGED <<nextId, req, users, env>>

\* ------------------------------------------------------------------------
\* Users
\* ------------------------------------------------------------------------
MinPasswordLength == 10
MaxPasswordLength == 2000
MaxUsernameLength == 50

LowerCase ==
  <<"a", "b", "c", "d", "e", "f", "g", "h", "i", "j", "k", "l", "m",
    "n", "o", "p", "q", "r", "s", "t", "u", "v", "w", "x", "y", "z">>
UpperCase ==
  <<"A", "B", "C", "D", "E", "F", "G", "H", "I", "J", "K", "L", "M",
    "N", "O", "P", "Q", "R", "S", "T", "U", "V", "W", "X", "Y", "Z">>
\* String.prototype.toLowerCase, on the letters of the username validator.
ToLowerCase(s) ==
  [i \in 1..Len(s) |->
     IF Occurs(UpperCase, s[i]) THEN LowerCase[Index(UpperCase, s[i])] ELSE s[i]]

\* typeof
TypeOf(x) ==
  CASE x.t = "str" -> "string"
    [] x.t \in {"num", "nan"} -> "number"
    [] x.t = "bool" -> "boolean"
    [] x.t = "undef" -> "undefined"
    [] OTHER -> "object"

\* The fields of a request to /login and /create.
Credentials(username, password, repeatPassword) ==
  [username |-> username, password |-> password, repeatPassword |-> repeatPassword]

\* req.body.username.trim().toLowerCase() throws on a value without trim().
NormalizeThrows(username) == ~IsStr(username)
Normalize(username) == ToLowerCase(Trim(username.v))

\* /^[a-zA-Z0-9]+$/.test(value)
UsernameRegexTest(value) ==
  /\ value # <<>>
  /\ \A i \in 1..Len(value) : value[i] \in Letters \cup Digits

\* The String cast of a path without trim.
CastPlainString(x) ==
  CASE IsNullish(x) -> x
    [] x.t = "str" -> x
    [] x.t = "num" -> Str(NumberToString(x.v))
    [] x.t = "bool" -> Str(IF x.v THEN <<"t", "r", "u", "e">> ELSE <<"f", "a", "l", "s", "e">>)
    [] OTHER -> CastError

\* username: required, maxlength, validate (the String cast trims it).
UsernameValid(username) ==
  /\ Trim(username) # <<>>
  /\ Len(Trim(username)) <= MaxUsernameLength
  /\ UsernameRegexTest(Trim(username))
\* password: required, minlength, maxlength.
PasswordValid(password) ==
  /\ IsStr(CastPlainString(password))
  /\ CastPlainString(password).v # <<>>
  /\ Len(CastPlainString(password).v) >= MinPasswordLength
  /\ Len(CastPlainString(password).v) <= MaxPasswordLength

\* The paths of new User({ username, password }) that fail validation.
UserErrors(username, password) ==
  {p \in {"username"} : ~UsernameValid(username)}
    \cup {p \in {"password"} : ~PasswordValid(password)}

\* bcrypt.hash(s, 8): the digest of s under a salt drawn for the call. The
\* digest stands for the Blowfish-based one: a keyed substitution of the
\* characters, one to one for a given salt.
Salts == {1, 2}
Digest(s, salt) == [i \in 1..Len(s) |-> (Index(Ascii, s[i]) + (salt * i)) % Len(Ascii)]
BcryptHash(s, salt) == [salt |-> salt, digest |-> Digest(s, salt)]
\* bcrypt.compare(s, hash) rejects when s is no string.
CompareThrows(s) == TypeOf(s) # "string"
BcryptCompare(s, hash) == Digest(s.v, hash.salt) = hash.digest

\* User.findOne({ username }): the positions of the users of that name.
FindUser(username) == {i \in DOMAIN users : users[i].username = username}

\* Variant: the collection has no unique index on username.
DuplicateKeyNever(username) == FALSE
\* The unique index of username refuses a second document of the same name.
DuplicateKey(username) == FindUser(username) # {}

PasswordsDiffer == "Lösenorden stämmer inte överens. Vänligen försök igen."
UsernameTaken == "Användarnamnet är inte tillgängligt."
WrongCredentials == "Felaktiga uppgifter. Vänligen testa igen."
ValidationFailed == "User validation failed"
NoTrim == "Cannot read properties of undefined (reading 'trim')"
IllegalArguments(s) == "Illegal arguments: " \o TypeOf(s) \o ", string"

\* The response of a handler that gives the error a status and passes it on.
Failed(r, status, message) ==
  [r EXCEPT !.pc = "done", !.thrown = message,
            !.status = ErrorHandler(env, [status |-> status, message |-> message]).status,
            !.response = ErrorHandler(env, [status |-> status, message |-> message]).body]

\* POST /create, up to the validation and the hash of user.save(); the hashed
\* password is kept in the request until the insert.
CreatePost ==
  \E slot \in DOMAIN req :
    LET r == req[slot]
    IN /\ r.pc = "received"
       /\ r.op = "create"
       /\ IF r.body.password # r.body.repeatPassword
          THEN req' = [req EXCEPT ![slot] = Failed(r, 400, PasswordsDiffer)]
          ELSE IF NormalizeThrows(r.body.username)
          THEN req' = [req EXCEPT ![slot] = Failed(r, 400, NoTrim)]
          ELSE IF UserErrors(Normalize(r.body.username), r.body.password) # {}
          THEN req' = [req EXCEPT ![slot] =
                         [Failed(r, 400, ValidationFailed) EXCEPT
                            !.errors =
                              {[path |-> p, kind |-> "invalid"] :
                                 p \in UserErrors(Normalize(r.body.username),
                                                  r.body.password)}]]
          ELSE \E salt \in Salts :
                 req' = [req EXCEPT ![slot] =
                           [r EXCEPT !.pc = "validated",
                                     !.body.username = Str(Normalize(r.body.username)),
                                     !.body.password =
                                       BcryptHash(CastPlainString(r.body.password).v, salt)]]
       /\ UNCHANGED <<store, nextId, users, env>>

\* The insert of user.save() and the response of POST /create.
InsertUser ==
  \E slot \in DOMAIN req :
    LET r == req[slot]
    IN /\ r.pc = "validated"
       /\ r.op = "create"
       /\ IF DuplicateKey(r.body.username.v)
          THEN /\ req' = [req EXCEPT ![slot] = Failed(r, 400, UsernameTaken)]
               /\ users' = users
          ELSE /\ users' = Append(users, [username |-> r.body.username.v,
                                          password |-> r.body.password])
               /\ req' = [req EXCEPT ![slot] =
                            [Done(r, 201, {}) EXCEPT
                               !.response =
                                 [message |-> "Ditt konto har skapats! Logga in för att använda applikationen."]]]
       /\ UNCHANGED <<store, nextId, env>>

\* jwt.sign(payload, secret, { expiresIn: '1h' }) and jwt.verify: the
\* signature is a keyed digest of the claims; the clock counts hours. The
\* id of a user document is its position in the collection.
JwtSecret == "JWT_SECRET"
Now == 2
Mac(id, username, exp, secret) == <<secret, id, username, exp>>
JwtSign(id, username, iat, secret) ==
  [id |-> id, username |-> username, exp |-> iat + 1,
   sig |-> Mac(id, username, iat + 1, secret)]
\* Variant: the signature is not checked.
JwtVerifyUnsigned(token, secret) == token.exp > Now
JwtVerify(token, secret) ==
  /\ token.sig = Mac(token.id, token.username, token.exp, secret)
  /\ token.exp > Now

\* Variant: a value that is no string compares as a wrong password.
AuthenticateLenient(username, password) ==
  IF FindUser(username) = {} \/ CompareThrows(password)
  THEN WrongCredentials
  ELSE IF \E i \in FindUser(username) : ~BcryptCompare(password, users[i].password)
  THEN WrongCredentials
  ELSE ""
\* User.authenticate: the message of the error it throws, '' when it
\* returns the user.
Authenticate(username, password) ==
  IF FindUser(username) = {}
  THEN WrongCredentials
  ELSE IF CompareThrows(password)
  THEN IllegalArguments(password)
  ELSE IF \E i \in FindUser(username) : ~BcryptCompare(password, users[i].password)
  THEN WrongCredentials
  ELSE ""

\* POST /login
LoginPost ==
  \E slot \in DOMAIN req :
    LET r == req[slot]
    IN /\ r.pc = "received"
       /\ r.op = "login"
       /\ IF NormalizeThrows(r.body.username)
          THEN req' = [req EXCEPT ![slot] = Failed(r, 401, NoTrim)]
          ELSE IF Authenticate(Normalize(r.body.username), r.body.password) # ""
          THEN req' = [req EXCEPT ![slot] =
                         Failed(r, 401, Authenticate(Normalize(r.body.username),
                                                     r.body.password))]
          ELSE \E i \in FindUser(Normalize(r.body.username)) :
                 req' = [req EXCEPT ![slot] =
                           [Done(r, 200, {}) EXCEPT
                              !.response =
                                [token |-> JwtSign(i, Normalize(r.body.username),
                                                   Now, JwtSecret)]]]
       /\ UNCHANGED <<store, nextId, users, env>>

\* ------------------------------------------------------------------------
\* Authentication
\* ------------------------------------------------------------------------
\* A word of the authorization header: a scheme word, an empty word, or the
\* text of a token with the claims and the signature it encodes.
NoJwt == [id |-> "", username |-> "", exp |-> 0, sig |-> <<"", "", "", 0>>]
Word(text) == [text |-> text, jwt |-> NoJwt]
JwtWord(token) == [text |-> "jwt", jwt |-> token]
Authorization(words) == [present |-> TRUE, words |-> words]

\* req.headers.authorization?.split(' ')[1], with an empty word when there
\* is none.
SecondWord(header) ==
  IF header.present /\ Len(header.words) >= 2 THEN header.words[2] ELSE Word("")
\* !token
TokenMissing(header) == SecondWord(header).text = ""
\* The callback of jwt.verify gets an error: the text is no token, or the
\* token fails verification.
TokenInvalid(header) ==
  \/ SecondWord(header).text # "jwt"
  \/ ~JwtVerify(SecondWord(header).jwt, JwtSecret)

\* A request to /puzzles arrives with its headers and its body.
Arrive(slot, op, header, body) ==
  /\ req[slot].pc = "idle"
  /\ op = "add" => nextId <= MaxRecords
  /\ req' = [req EXCEPT ![slot] =
               [Idle EXCEPT !.pc = "arrived", !.op = op, !.authorization = header,
                            !.body = body]]
  /\ UNCHANGED <<store, nextId, users, env>>

\* authenticateToken
AuthenticateToken ==
  \E slot \in DOMAIN req :
    LET r == req[slot]
    IN /\ r.pc = "arrived"
       /\ IF TokenMissing(r.authorization)
          THEN req' = [req EXCEPT ![slot] =
                         [Done(r, 401, {}) EXCEPT
                            !.response = [error |-> "No token provided."]]]
          ELSE IF TokenInvalid(r.authorization)
          THEN req' = [req EXCEPT ![slot] =
                         [Done(r, 401, {}) EXCEPT
                            !.response = [error |-> "Invalid token."]]]
          ELSE req' = [req EXCEPT ![slot] =
                         [r EXCEPT !.pc = "received",
                                   !.user = SecondWord(r.authorization).jwt.id]]
       /\ UNCHANGED <<store, nextId, users, env>>

\* The response has been sent; the request is over.
Respond ==
  \E slot \in DOMAIN req :
    /\ req[slot].pc = "done"
    /\ req' = [req EXCEPT ![slot] = Idle]
    /\ UNCHANGED <<store, nextId, users, env>>

\* ------------------------------------------------------------------------
\* Requests
\* ------------------------------------------------------------------------
Chars(n) == Str(NatToDigits(n))
TitleA == Str(<<"A">>)
Bob == Str(<<"B", "o", "b">>)
Hash == Str(<<"#">>)
Blank == Str(<<" ">>)

\* A body with a valid title and nothing else.
BaseBody == [EmptyBody EXCEPT !.title = TitleA]

\* piecesNumber, complete and missingPiecesNumber in their encodings.
PiecesInputs == {Undef, Chars(2), Chars(3)}
CompleteInputs == {Undef, StrTrue, StrFalse, Bool(TRUE), Bool(FALSE), Str(<<"1">>)}
MissingInputs == {Undef, Chars(0), Chars(1), Chars(2), Str(<<"a">>)}

CompleteBodies ==
  {[BaseBody EXCEPT !.piecesNumber = p, !.complete = c, !.missingPiecesNumber = m] :
     p \in PiecesInputs, c \in CompleteInputs, m \in MissingInputs}

\* piecesNumber around the limits of its range.
PiecesRangeInputs ==
  {Undef, EmptyStr, Chars(0), Chars(MinPieces - 1), Chars(MinPieces),
   Str(<<"2", ".", "5">>), Lit(MinPieces), Chars(MaxPieces), Chars(MaxPieces + 1),
   Str(<<"a">>)}

PiecesBodies == {[BaseBody EXCEPT !.piecesNumber = p] : p \in PiecesRangeInputs}

\* sizeHeight and sizeWidth, alone and together.
SizeInputs ==
  {Undef, EmptyStr, Chars(0), Chars(MinSize), Chars(MaxSize), Chars(MaxSize + 1),
   Str(<<"a">>)}

SizeBodies ==
  {[BaseBody EXCEPT !.sizeHeight = h, !.sizeWidth = w] : h \in SizeInputs, w \in SizeInputs}

\* isLentOut in its encodings, with and without a name.
LentOutInputs ==
  {Undef, StrTrue, StrFalse, Bool(TRUE), Bool(FALSE), Str(<<"1">>), Str(<<"a">>)}
LentOutToInputs ==
  {Undef, EmptyStr, Blank, Bob, Str(<<"E", "v", "a">>), Str(Rep("x", MaxLentOutToLength + 1))}

LentBodies ==
  {[BaseBody EXCEPT !.isLentOut = l, !.lentOutToString = n] :
     l \in LentOutInputs, n \in LentOutToInputs}

\* Titles inside and outside the character class and the length limit, and
\* free text with a character outside the class.
TitleInputs ==
  {Undef, EmptyStr, TitleA, Hash, Blank, Str(<<"A", "#">>), Str(<<" ", "A", "\t">>),
   Str(<<"\n", "A">>), Str(<<"P", "-", "1", ":", " ", "A", ",", "B", ";", "C", "!">>),
   Str(<<"P", " ", "#", "1", "!">>), Str(<<"å", "é">>),
   Str(Rep("a", MaxTitleLength)), Str(Rep("a", MaxTitleLength + 1)),
   Str(<<" ">> \o Rep("a", MaxTitleLength) \o <<" ">>)}
TitleBodies == {[EmptyBody EXCEPT !.title = t] : t \in TitleInputs}

FreeTextInputs == {Undef, Hash, Str(<<"H", "a", "l", "l">>)}

TextBodies ==
  {[BaseBody EXCEPT !.location = l, !.isLentOut = StrTrue, !.lentOutToString = n] :
     l \in FreeTextInputs, n \in FreeTextInputs \ {Undef}}
    \cup {[BaseBody EXCEPT !.location = l] : l \in FreeTextInputs}

\* Bodies that break no rule, one rule or several rules at once.
ErrorBodies ==
  {[EmptyBody EXCEPT !.title = t, !.piecesNumber = p, !.isLentOut = l, !.manufacturer = m] :
     t \in {Undef, TitleA}, p \in {Undef, Str(<<"a">>), Chars(MinPieces - 1)},
     l \in {Undef, StrTrue, Bool(TRUE)},
     m \in {Undef, Bob, Str(Rep("x", MaxManufacturerLength + 1))}}

\* Private notes: none, empty, with accented letters, with white space
\* around, white space only, and at the limit of the length. The title of a
\* body is the number of its note.
Notes ==
  <<Undef, EmptyStr, Str(<<"H", "e", "j", " ", "å", "!", Quote, "\\">>),
    Str(<<" ", "a", "\t">>), Blank, Str(Rep("é", MaxPrivateNoteLength)),
    Str(Rep("n", MaxPrivateNoteLength + 1))>>
NoteBodies ==
  {[EmptyBody EXCEPT !.title = Chars(i), !.privateNote = Notes[i]] : i \in DOMAIN Notes}

\* Identifiers of records that may exist, in lower and in upper case, and
\* identifiers that are too short, too long or not hexadecimal.
WellFormedIds ==
  {ToHexString(i) : i \in 1..(MaxRecords + 1)} \cup {Rep("A", ObjectIdLength - 1) \o <<"1">>}
MalformedIds ==
  {Rep("a", ObjectIdLength - 1), Rep("a", ObjectIdLength + 1),
   Rep("a", ObjectIdLength - 1) \o <<"g">>, <<"1">>}

\* The bodies of two updates of a record kept in the hall and of no known
\* manufacturer: one changes the location only, the other the manufacturer
\* only.
Hall == Str(<<"H", "a", "l", "l">>)
RaceBodies ==
  {[BaseBody EXCEPT !.location = Bob],
   [BaseBody EXCEPT !.location = Hall, !.manufacturer = Bob]}

\* A body with every field and an upload, and bodies that omit fields.
Picture(name) == Buf(<<"jpeg", <<"9", "0", "0">>, name>>)
FullBody ==
  [BaseBody EXCEPT !.piecesNumber = Chars(3), !.sizeHeight = Chars(2), !.sizeWidth = Chars(2),
                   !.manufacturer = Bob,
                   !.lastPlayed = Str(<<"2", "0", "2", "4", "-", "0", "5", "-", "0", "1">>),
                   !.location = Hall, !.complete = StrFalse, !.missingPiecesNumber = Chars(1),
                   !.privateNote = Str(<<"a">>), !.sharedNote = Str(<<"b">>),
                   !.isPrivate = StrFalse, !.isLentOut = StrTrue, !.lentOutToString = Bob,
                   !.file = Picture("cat")]
OmitBodies ==
  {FullBody, BaseBody,
   [BaseBody EXCEPT !.file = Picture("dog")],
   [BaseBody EXCEPT !.isLentOut = Bool(TRUE)],
   [BaseBody EXCEPT !.isLentOut = StrTrue],
   [FullBody EXCEPT !.sizeHeight = Undef, !.sizeWidth = Undef, !.privateNote = Undef,
                    !.lastPlayed = Undef, !.file = Undef],
   [FullBody EXCEPT !.piecesNumber = Undef, !.manufacturer = Undef, !.location = Undef,
                    !.sharedNote = Undef, !.lentOutToString = Undef, !.isLentOut = StrFalse]}

\* Bodies that name an owner and an id of their own.
UserId(user) == [t |-> "id", v |-> user]
OwnerBodies ==
  {[BaseBody EXCEPT !.location = l, !.owner = o, !.id = i] :
     l \in {Undef, Hall}, o \in {Undef, UserId("anna"), UserId("bo")},
     i \in {Undef, Str(ToHexString(2))}}

\* One request at a time.
Sequential == {1}
\* Two requests in flight.
Concurrent == {1, 2}

Init ==
  /\ store = <<>>
  /\ nextId = 1
  /\ req = [slot \in Sequential |-> Idle]
  /\ users = <<>>
  /\ env = "production"

\* The application in any of its modes.
InitModes ==
  /\ store = <<>>
  /\ nextId = 1
  /\ req = [slot \in Sequential |-> Idle]
  /\ users = <<>>
  /\ env \in Modes

InitRace ==
  /\ store = <<>>
  /\ nextId = 1
  /\ req = [slot \in Concurrent |-> Idle]
  /\ users = <<>>
  /\ env = "production"

\* The requests of one specification: anna sends any of the bodies, bo is
\* another caller, who sends a plain update or a delete; both read.
Requests(bodies) ==
  \E slot \in DOMAIN req :
    \/ \E body \in bodies : Receive(slot, "add", "anna", <<>>, body)
    \/ \E id \in Ids, body \in bodies : Receive(slot, "update", "anna", ToHexString(id), body)
    \/ \E id \in Ids : Receive(slot, "update", "bo", ToHexString(id), BaseBody)
    \/ \E id \in Ids, user \in Users : Receive(slot, "delete", user, ToHexString(id), EmptyBody)
    \/ \E id \in Ids, user \in Users : Receive(slot, "read", user, ToHexString(id), EmptyBody)
    \/ \E user \in Users : Receive(slot, "readAll", user, <<>>, EmptyBody)

\* Requests on identifiers as callers write them: each of the users
\* creates, lists, reads, updates and deletes.
Calls(callers, created, bodies, params) ==
  \E slot \in DOMAIN req, user \in callers :
    \/ \E body \in created : Receive(slot, "add", user, <<>>, body)
    \/ Receive(slot, "readAll", user, <<>>, EmptyBody)
    \/ \E param \in params, body \in bodies : Receive(slot, "update", user, param, body)
    \/ \E param \in params, op \in {"read", "delete"} :
         Receive(slot, op, user, param, EmptyBody)

ReceiveComplete == Requests(CompleteBodies)
ReceivePieces == Requests(PiecesBodies)
ReceiveSize == Requests(SizeBodies)
ReceiveLent == Requests(LentBodies)
ReceiveTitle == Requests(TitleBodies)
ReceiveText == Requests(TextBodies)
ReceiveErrors == Requests(ErrorBodies)
ReceiveNote == Requests(NoteBodies)
ReceiveOmit == Requests(OmitBodies)
ReceiveOwner == Calls(Users, OwnerBodies, OwnerBodies, {ToHexString(i) : i \in Ids})
ReceiveIds == Calls(Users, {BaseBody}, {BaseBody}, WellFormedIds \cup MalformedIds)
ReceiveRace ==
  Calls({"anna"}, {[BaseBody EXCEPT !.location = Hall]}, RaceBodies,
        {ToHexString(i) : i \in Ids})

\* The fields callers send to /create and /login.
Anna == Str(<<"a", "n", "n", "a">>)
AnnaTyped == Str(<<" ", "A", "n", "n", "a">>)
Bo == Str(<<"b", "o">>)
Spaced == Str(<<"a", " ", "b">>)
TenLetters == Str(<<"t", "e", "n", "l", "e", "t", "t", "e", "r", "s">>)
OtherLetters == Str(<<"o", "t", "h", "e", "r", "p", "a", "s", "s", "1">>)
Short == Str(<<"s", "h", "o", "r", "t">>)
CreateBodies ==
  {Credentials(Anna, TenLetters, TenLetters),
   Credentials(AnnaTyped, TenLetters, TenLetters),
   Credentials(Bo, TenLetters, TenLetters),
   Credentials(AnnaTyped, Short, Short),
   Credentials(AnnaTyped, TenLetters, OtherLetters),
   Credentials(Spaced, TenLetters, TenLetters),
   Credentials(Undef, TenLetters, TenLetters)}
LoginBodies ==
  {Credentials(AnnaTyped, TenLetters, Undef),
   Credentials(Anna, OtherLetters, Undef),
   Credentials(Anna, Lit(1), Undef),
   Credentials(Anna, Undef, Undef),
   Credentials(Bo, TenLetters, Undef),
   Credentials(Bo, Lit(1), Undef),
   Credentials(Undef, TenLetters, Undef)}
ReceiveUsers ==
  \E slot \in DOMAIN req :
    \/ \E body \in CreateBodies : Receive(slot, "create", "", <<>>, body)
    \/ \E body \in LoginBodies : Receive(slot, "login", "", <<>>, body)

\* The authorization headers callers send to /puzzles: none, a scheme word
\* alone or with an empty word, a text that is no token, and tokens: as
\* /login signs them now, signed an hour or more ago, signed with another
\* secret, and with the id changed after signing.
Forged(token, id) == [token EXCEPT !.id = id]
Headers ==
  {NoHeader,
   Authorization(<<Word("Bearer")>>),
   Authorization(<<Word("Bearer"), Word("")>>),
   Authorization(<<Word("Bearer"), Word("abc")>>),
   Authorization(<<Word("Bearer"), JwtWord(JwtSign("bo", "bo", Now - 1, JwtSecret))>>),
   Authorization(<<Word("Bearer"), JwtWord(JwtSign("bo", "bo", Now, "guess"))>>),
   Authorization(<<Word("Bearer"),
                   JwtWord(Forged(JwtSign("bo", "bo", Now, JwtSecret), "anna"))>>)}
    \cup {Authorization(<<Word("Bearer"), JwtWord(JwtSign(u, u, Now, JwtSecret))>>) :
            u \in Users}
ReceiveAuth ==
  \E slot \in DOMAIN req, header \in Headers :
    \/ \E body \in {BaseBody, [BaseBody EXCEPT !.location = Bob], EmptyBody} :
         Arrive(slot, "add", header, body)
    \/ Arrive(slot, "readAll", header, EmptyBody)

Handle ==
  \/ AddPuzzle
  \/ LoadPuzzle
  \/ AuthorizeUser
  \/ GetPuzzle
  \/ GetAllPuzzles
  \/ UpdatePuzzle
  \/ DeletePuzzle
  \/ Respond

NextComplete == ReceiveComplete \/ Handle
NextPieces == ReceivePieces \/ Handle
NextSize == ReceiveSize \/ Handle
NextLent == ReceiveLent \/ Handle
NextTitle == ReceiveTitle \/ Handle
NextText == ReceiveText \/ Handle
NextErrors == ReceiveErrors \/ Handle
NextNote == ReceiveNote \/ Handle
NextOmit == ReceiveOmit \/ Handle
NextOwner == ReceiveOwner \/ Handle
NextDamage == ReceiveNote \/ Damage \/ Handle
NextIds == ReceiveIds \/ Handle
NextRace == ReceiveRace \/ Handle
NextUsers == ReceiveUsers \/ CreatePost \/ InsertUser \/ LoginPost \/ Respond
NextAuth == ReceiveAuth \/ AuthenticateToken \/ AddPuzzle \/ GetAllPuzzles \/ Respond

\* Each specification exercises one group of interdependent fields.
SpecComplete == Init /\ [][NextComplete]_vars
SpecPieces == Init /\ [][NextPieces]_vars
SpecSize == Init /\ [][NextSize]_vars
SpecLent == Init /\ [][NextLent]_vars
SpecTitle == Init /\ [][NextTitle]_vars
SpecText == Init /\ [][NextText]_vars
SpecErrors == Init /\ [][NextErrors]_vars
SpecNote == Init /\ [][NextNote]_vars
SpecOmit == Init /\ [][NextOmit]_vars
SpecOwner == Init /\ [][NextOwner]_vars
\* Stored envelopes get damaged, in either mode of the application.
SpecDamage == InitModes /\ [][NextDamage]_vars
SpecIds == Init /\ [][NextIds]_vars
\* Requests run concurrently: their steps interleave.
SpecRace == InitRace /\ [][NextRace]_vars
\* Two requests to /create and /login in flight.
SpecUsers == InitRace /\ [][NextUsers]_vars
\* The requests to /puzzles behind authenticateToken.
SpecAuth == Init /\ [][NextAuth]_vars

\* ------------------------------------------------------------------------
\* Properties
\* ------------------------------------------------------------------------
\* A request that went through addPuzzle or updatePuzzle and was answered.
Handled(r) == r.pc = "done" /\ r.op \in {"add", "update"} /\ r.status \in {200, 201, 400}
Accepted(r) == r.pc = "done" /\ r.op \in {"add", "update"} /\ r.status \in {200, 201}
Rejected(r) == r.pc = "done" /\ r.op \in {"add", "update"} /\ r.status = 400
\* The record an accepted request left in the collection.
Stored(r) == store[r.id]
HasError(r, path, kind) == [path |-> path, kind |-> kind] \in r.errors

\* The body gives a missing count above zero that is valid for its
\* piecesNumber, and complete in an encoding of true.
MissingWithCompleteTrue(body) ==
  /\ CastBoolean(body.complete) = Bool(TRUE)
  /\ LessEq(Lit(1), body.missingPiecesNumber)
  /\ Less(body.missingPiecesNumber, body.piecesNumber)

\* C1: for Create and Update, a request that supplies missingPiecesNumber > 0
\* (valid for its piecesNumber) together with complete = true in any accepted
\* encoding of true leaves a stored record with complete = false.
C1_DerivedCompleteWins ==
  \A slot \in DOMAIN req :
    (Accepted(req[slot]) /\ MissingWithCompleteTrue(req[slot].body))
      => Stored(req[slot]).complete = Bool(FALSE)

\* C2: for Create and Update, a request without piecesNumber leaves a stored
\* record with complete = true and an empty missingPiecesNumber, whatever
\* complete and missingPiecesNumber the caller supplied.
C2_NoPiecesForcesComplete ==
  \A slot \in DOMAIN req :
    (Accepted(req[slot]) /\ ~Truthy(req[slot].body.piecesNumber))
      => /\ Stored(req[slot]).complete = Bool(TRUE)
         /\ IsNullish(Stored(req[slot]).missingPiecesNumber)

\* An update without piecesNumber, sent with complete = 'false' and a missing
\* count, was accepted on a record that had pieces missing.
C2_Witness ==
  \E slot \in DOMAIN req :
    /\ Accepted(req[slot])
    /\ req[slot].op = "update"
    /\ req[slot].body.piecesNumber = Undef
    /\ req[slot].body.complete = StrFalse
    /\ req[slot].body.missingPiecesNumber = Chars(1)
    /\ req[slot].puzzle.missingPiecesNumber = Lit(1)
    /\ Stored(req[slot]).complete = Bool(TRUE)

\* C3: every stored record with isLentOut = false (given as 'false', as a
\* boolean, or omitted and defaulted) has an empty or null lentOutToString.
C3_NotLentOutHasNoName ==
  \A id \in DOMAIN store :
    (store[id].isLentOut = Bool(FALSE) \/ store[id].isLentOut = Undef)
      => ~Truthy(store[id].lentOutToString)

\* C4: a Create or Update with isLentOut = true (in any accepted encoding) and
\* no or an empty lentOutToString is rejected, and every stored record with
\* isLentOut = true has a non-empty lentOutToString.
C4_LentOutNeedsName ==
  /\ \A slot \in DOMAIN req :
       (/\ Handled(req[slot])
        /\ CastBoolean(req[slot].body.isLentOut) = Bool(TRUE)
        /\ ~Truthy(req[slot].body.lentOutToString))
         => Rejected(req[slot])
  /\ \A id \in DOMAIN store :
       store[id].isLentOut = Bool(TRUE) => Truthy(store[id].lentOutToString)

\* C5: a Create or Update that supplies one of sizeHeight and sizeWidth without
\* the other is rejected, and no stored record has exactly one of the two.
C5_SizePaired ==
  /\ \A slot \in DOMAIN req :
       (/\ Handled(req[slot])
        /\ Truthy(req[slot].body.sizeHeight) # Truthy(req[slot].body.sizeWidth))
         => Rejected(req[slot])
  /\ \A id \in DOMAIN store :
       IsNullish(store[id].sizeHeight) <=> IsNullish(store[id].sizeWidth)

\* C6: every stored record that has a missingPiecesNumber satisfies
\* 1 <= missingPiecesNumber < piecesNumber of the same record.
C6_MissingBelowPieces ==
  \A id \in DOMAIN store :
    ~IsNullish(store[id].missingPiecesNumber)
      => /\ LessEq(Lit(1), store[id].missingPiecesNumber)
         /\ Less(store[id].missingPiecesNumber, store[id].piecesNumber)

\* An accepted update changed piecesNumber of a record while sending again
\* the missingPiecesNumber the record had.
C6_Witness ==
  \E slot \in DOMAIN req :
    /\ Accepted(req[slot])
    /\ req[slot].op = "update"
    /\ ~IsNullish(req[slot].puzzle.missingPiecesNumber)
    /\ Stored(req[slot]).missingPiecesNumber = req[slot].puzzle.missingPiecesNumber
    /\ Stored(req[slot]).piecesNumber # req[slot].puzzle.piecesNumber

\* C7: a Create or Update whose complete is false while missingPiecesNumber is
\* absent or zero is rejected; in every stored record complete = false implies
\* a missingPiecesNumber above zero, and a missingPiecesNumber above zero
\* implies complete = false.
C7_CompleteFollowsMissing ==
  /\ \A slot \in DOMAIN req :
       (/\ Handled(req[slot])
        /\ Truthy(req[slot].body.piecesNumber)
        /\ CastBoolean(req[slot].body.complete) = Bool(FALSE)
        /\ ~Less(Lit(0), req[slot].body.missingPiecesNumber))
         => Rejected(req[slot])
  /\ \A id \in DOMAIN store :
       /\ store[id].complete = Bool(FALSE) => Less(Lit(0), store[id].missingPiecesNumber)
       /\ Less(Lit(0), store[id].missingPiecesNumber) => store[id].complete = Bool(FALSE)

\* A request with complete = false and no missingPiecesNumber was rejected by
\* the validator of complete.
C7_Witness ==
  \E slot \in DOMAIN req :
    /\ Rejected(req[slot])
    /\ Truthy(req[slot].body.piecesNumber)
    /\ CastBoolean(req[slot].body.complete) = Bool(FALSE)
    /\ req[slot].body.missingPiecesNumber = Undef
    /\ HasError(req[slot], "complete", "validate")

\* C8: a Create or Update with a piecesNumber is accepted exactly when
\* piecesNumber is an integer with 2 <= piecesNumber <= 20000.
C8_PiecesIntegerInRange ==
  \A slot \in DOMAIN req :
    (Handled(req[slot]) /\ Truthy(req[slot].body.piecesNumber))
      => (Accepted(req[slot])
            <=> /\ IsInteger(ToNumber(req[slot].body.piecesNumber))
                /\ LessEq(Lit(MinPieces), req[slot].body.piecesNumber)
                /\ LessEq(req[slot].body.piecesNumber, Lit(MaxPieces)))

\* The characters of a string are all of the allowed set.
AllowedOnly(s) == \A i \in 1..Len(s) : s[i] \in TitleChars

\* C9 as stated: a request whose title is empty, missing or has a character
\* outside the allowed set is rejected, and a title of allowed characters
\* only with length 1..100 is accepted.
C9_TitleAsGiven ==
  \A slot \in DOMAIN req :
    Handled(req[slot])
      => /\ (~Truthy(req[slot].body.title) \/ ~AllowedOnly(req[slot].body.title.v))
              => Rejected(req[slot])
         /\ (/\ IsStr(req[slot].body.title)
             /\ AllowedOnly(req[slot].body.title.v)
             /\ Len(req[slot].body.title.v) \in 1..MaxTitleLength)
              => Accepted(req[slot])

\* The title without its surrounding white space is not empty, has allowed
\* characters only and at most 100 of them.
TrimmedTitleOk(title) ==
  /\ IsStr(title)
  /\ AllowedOnly(Trim(title.v))
  /\ Len(Trim(title.v)) \in 1..MaxTitleLength

\* C9 amended: the rules of the title apply to the title without its
\* surrounding white space: a request is accepted exactly when that title is
\* not empty, has allowed characters only and at most 100 of them; the
\* stored title is the trimmed one.
C9_TitleTrimmed ==
  \A slot \in DOMAIN req :
    Handled(req[slot])
      => /\ Accepted(req[slot]) <=> TrimmedTitleOk(req[slot].body.title)
         /\ Accepted(req[slot]) => Stored(req[slot]).title = Str(Trim(req[slot].body.title.v))

\* A title with white space outside the allowed set at its ends was accepted
\* and stored trimmed.
C9_Witness ==
  \E slot \in DOMAIN req :
    /\ Accepted(req[slot])
    /\ ~AllowedOnly(req[slot].body.title.v)
    /\ Stored(req[slot]).title = TitleA

\* C10: no stored record has a character outside the allowed set of the
\* title in its location or in its lentOutToString.
C10_FreeTextRestricted ==
  \A id \in DOMAIN store :
    /\ IsStr(store[id].location) => AllowedOnly(store[id].location.v)
    /\ IsStr(store[id].lentOutToString) => AllowedOnly(store[id].lentOutToString.v)

\* C11: a rejected Create or Update reports every rule its body violates: a
\* piecesNumber that is not a number, a missing title, isLentOut = true
\* without a name, a manufacturer above 50 characters and a piecesNumber
\* out of range each have their message in the response.
C11_EveryViolationReported ==
  \A slot \in DOMAIN req :
    Rejected(req[slot])
      => /\ "piecesNumber" \in NotNumberFields(req[slot].body)
              => HasError(req[slot], "piecesNumber", "notNumber")
         /\ ~Truthy(req[slot].body.title)
              => (HasError(req[slot], "", "titleRequired")
                    \/ HasError(req[slot], "title", "required"))
         /\ (CastBoolean(req[slot].body.isLentOut) = Bool(TRUE)
               /\ ~Truthy(req[slot].body.lentOutToString))
              => (HasError(req[slot], "", "lentOutToStringRequired")
                    \/ HasError(req[slot], "isLentOut", "validate"))
         /\ (IsStr(req[slot].body.manufacturer)
               /\ Len(Trim(req[slot].body.manufacturer.v)) > MaxManufacturerLength)
              => HasError(req[slot], "manufacturer", "validate")
         /\ (~isNaN(req[slot].body.piecesNumber) /\ Truthy(req[slot].body.piecesNumber)
               /\ Less(req[slot].body.piecesNumber, Lit(MinPieces)))
              => HasError(req[slot], "piecesNumber", "validate")

\* The private note of the body that has the given title.
NoteOf(title) == Notes[DigitsToInt(title.v)]
\* A read that was answered with the record.
ReadOk(r) == r.pc = "done" /\ r.op = "read" /\ r.status = 200
\* The envelope of a plaintext, as a stored value.
Sealed(plain) == Str(JsonStringify(EncryptPrivateNote(plain)))

\* C12 as stated: for a private note s of 0..1000 characters accepted by
\* Create, the stored privateNote is the envelope of s (not s itself when s
\* is not empty), and a Read of the record returns exactly s.
C12_NoteAsGiven ==
  \A slot \in DOMAIN req :
    /\ (/\ Accepted(req[slot]) /\ req[slot].op = "add"
        /\ IsStr(req[slot].body.privateNote)
        /\ req[slot].body.privateNote.v # <<>>)
         => /\ Stored(req[slot]).privateNote = Sealed(req[slot].body.privateNote.v)
            /\ Stored(req[slot]).privateNote # req[slot].body.privateNote
    /\ (ReadOk(req[slot]) /\ IsStr(NoteOf(req[slot].response.title)))
         => req[slot].response.privateNote = NoteOf(req[slot].response.title)

\* C12 amended: the note is trimmed first. When the trimmed note is not
\* empty, the stored privateNote is the envelope of the trimmed note and is
\* not the plaintext; when it is empty, the empty string is stored. A Read
\* returns exactly the trimmed note.
C12_NoteTrimmedRoundTrip ==
  \A slot \in DOMAIN req :
    /\ (/\ Accepted(req[slot]) /\ req[slot].op = "add"
        /\ IsStr(req[slot].body.privateNote))
         => LET trimmed == Trim(req[slot].body.privateNote.v)
            IN /\ Len(trimmed) <= MaxPrivateNoteLength
               /\ IF trimmed = <<>>
                  THEN Stored(req[slot]).privateNote = EmptyStr
                  ELSE /\ Stored(req[slot]).privateNote = Sealed(trimmed)
                       /\ Stored(req[slot]).privateNote # Str(trimmed)
                       /\ Stored(req[slot]).privateNote # req[slot].body.privateNote
    /\ (ReadOk(req[slot]) /\ IsStr(NoteOf(req[slot].response.title)))
         => req[slot].response.privateNote = Str(Trim(NoteOf(req[slot].response.title).v))

\* A Read returned the thousand accented letters of the note a Create had
\* stored as an envelope.
C12_Witness ==
  \E slot \in DOMAIN req :
    /\ ReadOk(req[slot])
    /\ req[slot].response.privateNote = Str(Rep("é", MaxPrivateNoteLength))
    /\ store[req[slot].id].privateNote = Sealed(Rep("é", MaxPrivateNoteLength))
    /\ store[req[slot].id].privateNote # req[slot].response.privateNote

\* C13: a Read of a record by a caller who is not its owner never has the
\* decrypted privateNote in its response.
C13_NoteOnlyForOwner ==
  \A slot \in DOMAIN req :
    (/\ req[slot].pc = "done" /\ req[slot].op = "read" /\ req[slot].id # 0
     /\ req[slot].user # req[slot].puzzle.owner
     /\ Truthy(req[slot].puzzle.privateNote))
      => ~(/\ req[slot].status = 200
           /\ IsStr(req[slot].response.privateNote)
           /\ Sealed(req[slot].response.privateNote.v) = req[slot].puzzle.privateNote)

\* The request of the slot ends in this step, sent by the given user.
EndsBy(slot, user) ==
  req[slot].pc # "done" /\ req'[slot].pc = "done" /\ req[slot].user = user

\* C14: an Update or Delete by a caller who is not the owner of the record
\* is answered 403 and the record is still there as it was loaded; a step
\* that changes or removes a record ends a request of its owner on that
\* record, and a step that adds a record ends a request of its owner.
C14_OnlyOwnerWrites ==
  /\ [](\A slot \in DOMAIN req :
          (/\ req[slot].pc = "done" /\ req[slot].op \in {"update", "delete"}
           /\ req[slot].id # 0 /\ req[slot].user # req[slot].puzzle.owner)
            => /\ req[slot].status = 403
               /\ req[slot].id \in DOMAIN store
               /\ ApplyDefaults(store[req[slot].id]) = req[slot].puzzle)
  /\ [][/\ \A i \in DOMAIN store :
            (i \notin DOMAIN store' \/ store'[i] # store[i])
              => \E slot \in DOMAIN req :
                   EndsBy(slot, store[i].owner) /\ req[slot].id = i
        /\ \A j \in DOMAIN store' \ DOMAIN store :
            \E slot \in DOMAIN req :
              EndsBy(slot, store'[j].owner) /\ req[slot].op = "add"]_vars

\* bo's update of a record of anna, which would have changed its title, was
\* answered 403.
C14_Witness ==
  \E slot \in DOMAIN req :
    /\ req[slot].pc = "done" /\ req[slot].op = "update" /\ req[slot].status = 403
    /\ req[slot].user = "bo"
    /\ store[req[slot].id].owner = "anna"
    /\ store[req[slot].id].title # req[slot].body.title

\* The request of the slot takes a step.
Steps(slot) == req'[slot] # req[slot]

\* C15: a Read, Update or Delete whose well-formed id is of no record when
\* the record is looked up is answered 404 and changes nothing. A record
\* appears only under an id never used before, by a Create; an id whose
\* record was deleted stays without a record.
C15_Lifecycle ==
  [][
      /\ \A slot \in DOMAIN req :
          (/\ req[slot].pc = "received" /\ req[slot].op \in IdRoutes
           /\ IdMatch(req[slot].param) /\ FindOne(req[slot].param) = {}
           /\ Steps(slot))
            => /\ req'[slot].pc = "done" /\ req'[slot].status = 404
               /\ store' = store
      /\ \A i \in DOMAIN store' \ DOMAIN store :
          /\ i = nextId /\ nextId' = nextId + 1
          /\ \E slot \in DOMAIN req : req[slot].op = "add" /\ Steps(slot)
      /\ \A i \in DOMAIN store \ DOMAIN store' :
          \E slot \in DOMAIN req :
            req[slot].op = "delete" /\ req[slot].id = i /\ Steps(slot)
      /\ nextId' >= nextId /\ \A i \in DOMAIN store : i < nextId]_vars

\* A Read of the id of a deleted record was answered 404 while an update
\* that had loaded the record before it was deleted has yet to save.
C15_Witness ==
  \E slot \in DOMAIN req, other \in DOMAIN req :
    /\ req[slot].pc = "done" /\ req[slot].op = "read" /\ req[slot].status = 404
    /\ ObjectIdOf(req[slot].param) = ToHexString(1)
    /\ nextId > 1 /\ 1 \notin DOMAIN store
    /\ req[other].pc = "authorized" /\ req[other].op = "update" /\ req[other].id = 1

\* C16: a Read, Update or Delete with an id that is not 24 hexadecimal
\* characters is answered 400 'Invalid id' without a query of the
\* collection, and no step of it changes the collection; an id of 24
\* hexadecimal characters is not answered so.
C16_InvalidId ==
  /\ [](\A slot \in DOMAIN req :
          (req[slot].pc = "done" /\ req[slot].op \in IdRoutes)
            => IF Len(req[slot].param) = ObjectIdLength
                  /\ \A k \in 1..Len(req[slot].param) :
                       req[slot].param[k] \in Digits \cup {"a", "b", "c", "d", "e", "f",
                                                           "A", "B", "C", "D", "E", "F"}
               THEN ~HasError(req[slot], "id", "invalidId")
               ELSE /\ req[slot].status = 400 /\ HasError(req[slot], "id", "invalidId")
                    /\ ~req[slot].queried /\ req[slot].puzzle = EmptyDoc)
  /\ [][\A slot \in DOMAIN req :
          (req[slot].op \in IdRoutes /\ ~IdMatch(req[slot].param) /\ Steps(slot))
            => store' = store]_vars

\* An update with an id of 24 characters, one of them not hexadecimal, was
\* answered 400 while the collection holds a record.
C16_Witness ==
  \E slot \in DOMAIN req :
    /\ req[slot].pc = "done" /\ req[slot].op = "update" /\ req[slot].status = 400
    /\ Len(req[slot].param) = ObjectIdLength
    /\ HasError(req[slot], "id", "invalidId")
    /\ store # <<>>

\* The record an accepted update submits: every field as the request gives it.
Submitted(r) == PreSave(UpdatedPuzzle(r.puzzle, UpdatePuzzleInput(r.body).puzzle).doc)
SameFields(stored, doc) == \A p \in ValuePaths : stored[p] = doc[p]

\* C17: when two accepted updates of one record have both been carried
\* out, the stored record is the full record one of the two submitted,
\* never some fields of one and some of the other.
C17_LastWriteWins ==
  \A a \in DOMAIN req, b \in DOMAIN req :
    (/\ a # b
     /\ req[a].pc = "done" /\ req[a].op = "update" /\ req[a].status = 200
     /\ req[b].pc = "done" /\ req[b].op = "update" /\ req[b].status = 200
     /\ req[a].id = req[b].id /\ req[a].id \in DOMAIN store)
      => \/ SameFields(store[req[a].id], Submitted(req[a]))
         \/ SameFields(store[req[a].id], Submitted(req[b]))

\* The scalar fields an update blanks when the request omits them.
BlankedOnOmit ==
  {"piecesNumber", "sizeHeight", "sizeWidth", "manufacturer", "lastPlayed", "location",
   "missingPiecesNumber", "privateNote", "sharedNote", "lentOutToString"}
IsEmpty(x) == IsNullish(x) \/ x = EmptyStr
\* The step of the slot is an accepted update.
UpdateAccepted(slot) ==
  /\ req[slot].pc = "authorized" /\ req[slot].op = "update"
  /\ req'[slot].pc = "done" /\ req'[slot].status = 200

\* C18: an accepted update leaves every scalar field its request omitted
\* empty in the stored record, whatever the field held before, and leaves
\* the stored image as it was when the request carries no upload.
C18_OmittedBlanked ==
  [][\A slot \in DOMAIN req :
       UpdateAccepted(slot)
         => /\ \A p \in BlankedOnOmit :
                 req[slot].body[p] = Undef => IsEmpty(store'[req[slot].id][p])
            /\ req[slot].body.file = Undef
                 => store'[req[slot].id].image = store[req[slot].id].image]_vars

\* C19: the response of an accepted Create carries the id of the record it
\* stored, the id under which a Read finds that record.
C19_CreateReturnsId ==
  \A slot \in DOMAIN req :
    (req[slot].pc = "done" /\ req[slot].op = "add" /\ req[slot].status = 201)
      => /\ "id" \in DOMAIN req[slot].response
         /\ FindOne(req[slot].response.id.v) = {req[slot].id}

\* The records of a caller, by their ids.
OwnedBy(user) == {Str(ToHexString(i)) : i \in {k \in DOMAIN store : store[k].owner = user}}

\* C20: ReadAll is answered 200 with exactly the records of the caller,
\* each once and as stored: none of another user, and none at all when the
\* caller owns no record.
C20_OnlyOwnRecords ==
  \A slot \in DOMAIN req :
    (req[slot].pc = "done" /\ req[slot].op = "readAll")
      => /\ req[slot].status = 200
         /\ {listed.id : listed \in req[slot].response} = OwnedBy(req[slot].user)
         /\ Cardinality(req[slot].response) = Cardinality(OwnedBy(req[slot].user))
         /\ \A listed \in req[slot].response :
              \E i \in DOMAIN store :
                /\ listed.id = Str(ToHexString(i)) /\ store[i].owner = req[slot].user
                /\ listed.title = store[i].title

\* A caller who owns no record was answered 200 with an empty collection
\* while the other user owns a record.
C20_Witness ==
  \E slot \in DOMAIN req :
    /\ req[slot].pc = "done" /\ req[slot].op = "readAll" /\ req[slot].status = 200
    /\ req[slot].response = {}
    /\ \E i \in DOMAIN store : store[i].owner # req[slot].user

\* C21: a Create stores its record under a fresh id with the caller as the
\* owner, whatever owner or id the fields of the request name; no step
\* changes the owner of a stored record, and an Update leaves the record
\* under the id it had.
C21_OwnerAndIdKept ==
  [][
      /\ \A i \in DOMAIN store' \ DOMAIN store :
          \E slot \in DOMAIN req :
            /\ req[slot].op = "add" /\ Steps(slot)
            /\ i = nextId /\ store'[i].owner = req[slot].user
      /\ \A i \in DOMAIN store \cap DOMAIN store' : store'[i].owner = store[i].owner
      /\ \A slot \in DOMAIN req :
          (req[slot].op = "update" /\ Steps(slot)) => DOMAIN store' = DOMAIN store]_vars

\* A record was created by a request that names another user as the owner
\* and then changed by an update that names that user and another id.
C21_Witness ==
  \E slot \in DOMAIN req :
    /\ req[slot].pc = "done" /\ req[slot].op = "update" /\ req[slot].status = 200
    /\ req[slot].body.owner = UserId("bo") /\ req[slot].body.id # Undef
    /\ req[slot].user = "anna"
    /\ store[req[slot].id].owner = "anna" /\ store[req[slot].id].location = Hall

\* The request of the slot is a delete about to call deleteOne.
Deleting(slot) == req[slot].pc = "authorized" /\ req[slot].op = "delete" /\ Steps(slot)

\* C26: of two deletes of one record that both loaded it, the one that
\* finds the record removes it, and only it, and is answered 204; the one
\* that finds it gone removes nothing and is answered an error. No two
\* deletes of one record are both answered 204.
C26_DeletedOnce ==
  /\ [][\A slot \in DOMAIN req :
          Deleting(slot)
            => IF req[slot].id \in DOMAIN store
               THEN /\ DOMAIN store' = DOMAIN store \ {req[slot].id}
                    /\ \A i \in DOMAIN store' : store'[i] = store[i]
                    /\ req'[slot].status = 204
               ELSE /\ store' = store
                    /\ req'[slot].status >= 400]_vars
  /\ [](\A a \in DOMAIN req, b \in DOMAIN req :
          (/\ a # b /\ req[a].id = req[b].id
           /\ req[a].pc = "done" /\ req[a].op = "delete"
           /\ req[b].pc = "done" /\ req[b].op = "delete")
            => ~(req[a].status = 204 /\ req[b].status = 204))

\* Two deletes of one record have both ended: one with 204, the other,
\* which had loaded the record too, with an error.
C26_Witness ==
  \E a \in DOMAIN req, b \in DOMAIN req :
    /\ req[a].pc = "done" /\ req[a].op = "delete" /\ req[a].status = 204
    /\ req[b].pc = "done" /\ req[b].op = "delete" /\ req[b].status = 500
    /\ req[a].id = req[b].id /\ req[b].puzzle # EmptyDoc
    /\ req[a].id \notin DOMAIN store

\* The ids of the records that were deleted.
DeletedIds == (1..(nextId - 1)) \ DOMAIN store

\* C29: an update that loaded a record which a delete has removed since
\* does not bring the record back when it saves, and a Read of the id of a
\* deleted record is answered 404.
C29_DeleteWinsOverUpdate ==
  [][
      /\ \A slot \in DOMAIN req :
          (/\ req[slot].op = "update" /\ req[slot].pc \in {"loaded", "authorized"}
           /\ req[slot].id \in DeletedIds /\ Steps(slot))
            => /\ req[slot].id \notin DOMAIN store'
               /\ store' = store
      /\ \A slot \in DOMAIN req :
          (/\ req[slot].op = "read" /\ req[slot].pc = "received" /\ Steps(slot)
           /\ \E i \in DeletedIds : ToHexString(i) = ObjectIdOf(req[slot].param))
            => req'[slot].pc = "done" /\ req'[slot].status = 404]_vars

\* An update that had loaded the record before it was deleted has saved,
\* and a Read of the id after that was answered 404.
C29_Witness ==
  \E a \in DOMAIN req, b \in DOMAIN req :
    /\ req[a].pc = "done" /\ req[a].op = "update" /\ req[a].status = 500
    /\ req[a].puzzle # EmptyDoc /\ req[a].id \in DeletedIds
    /\ req[b].pc = "done" /\ req[b].op = "read" /\ req[b].status = 404
    /\ ToHexString(req[a].id) = ObjectIdOf(req[b].param)

\* The step of the slot ends a Create or an Update with a 400.
RejectedBy(slot) ==
  /\ req[slot].op \in {"add", "update"} /\ Steps(slot)
  /\ req'[slot].pc = "done" /\ req'[slot].status = 400

\* C27: a Create or Update that is answered 400 leaves the collection as
\* it was: no record is inserted, and the record of the Update holds every
\* value it held before.
C27_RejectedChangesNothing ==
  [][\A slot \in DOMAIN req : RejectedBy(slot) => store' = store /\ nextId' = nextId]_vars

\* An update whose manufacturer is too long was rejected by the schema; the
\* record holds the manufacturer it had.
C27_Witness ==
  \E slot \in DOMAIN req :
    /\ Rejected(req[slot]) /\ req[slot].op = "update"
    /\ HasError(req[slot], "manufacturer", "validate")
    /\ req[slot].id \in DOMAIN store
    /\ store[req[slot].id].manufacturer = Bob

\* An accepted update, the private note it supplies as text ('' when it
\* supplies none), and the note a Read of its record returns.
Updated(r) == Accepted(r) /\ r.op = "update"
Supplied(r) == IF IsStr(r.body.privateNote) THEN r.body.privateNote.v ELSE <<>>
NoteRead(r) == TransformPuzzleData(ApplyDefaults(Stored(r)), r.id).privateNote
\* The stored note is empty when the plaintext is, and else the envelope of
\* the plaintext, which a Read opens once.
SealedOnce(r, plain) ==
  /\ Stored(r).privateNote = (IF plain = <<>> THEN EmptyStr ELSE Sealed(plain))
  /\ NoteRead(r) = Str(plain)

\* C28 as stated: after an accepted Update the stored privateNote is the
\* envelope of the note the Update supplied, sealed once, and a Read
\* returns exactly that note, or the empty note if the Update gave none.
C28_NoteOfLastUpdate ==
  \A slot \in DOMAIN req :
    Updated(req[slot]) => SealedOnce(req[slot], Supplied(req[slot]))

\* C28 amended: the same of the supplied note trimmed of the white space
\* around it.
C28_TrimmedNoteOfLastUpdate ==
  \A slot \in DOMAIN req :
    Updated(req[slot]) => SealedOnce(req[slot], Trim(Supplied(req[slot])))

\* An update gave a record that held the envelope of one note another
\* note; the record holds the envelope of the new note.
C28_Witness ==
  \E slot \in DOMAIN req :
    /\ Updated(req[slot])
    /\ IsStr(req[slot].puzzle.privateNote) /\ IsEnvelope(req[slot].puzzle.privateNote.v)
    /\ Supplied(req[slot]) # <<>>
    /\ Stored(req[slot]).privateNote = Sealed(Supplied(req[slot]))
    /\ Stored(req[slot]).privateNote # req[slot].puzzle.privateNote

\* A request that ended with an exception the handlers give no status.
Faulted(r) == r.pc = "done" /\ r.thrown # ""

\* C24: a failure that is none of bad input, unauthorized, forbidden, not
\* found and method not allowed is answered 500 with a body that does not
\* carry the message of the exception, in every mode of the application.
C24_FaultIsGeneric ==
  \A slot \in DOMAIN req :
    Faulted(req[slot])
      => /\ req[slot].status = 500
         /\ ~("message" \in DOMAIN req[slot].response
               /\ req[slot].response.message = req[slot].thrown)

\* The record a read loaded holds a private note that is not the envelope
\* of the note it was written with.
LoadedDamaged(r) ==
  /\ r.pc = "done" /\ r.op = "read"
  /\ IsStr(r.puzzle.privateNote) /\ r.puzzle.privateNote.v # <<>>
  /\ r.puzzle.privateNote # Sealed(Trim(NoteOf(r.puzzle.title).v))
\* What the caller gets for a failure that is of no kind of its own.
UnknownFault == ErrorHandler(env, Exception("An unknown error occured. Please try again."))

\* C25: a Read of a record whose envelope is damaged, or was sealed under
\* another key, is never answered with a note; it fails, and with a
\* response that differs from that of a failure of unknown kind.
C25_DamagedNoteFailsDistinctly ==
  \A slot \in DOMAIN req :
    LoadedDamaged(req[slot])
      => /\ req[slot].status # 200
         /\ req[slot].response # UnknownFault.body

\* The username of a stored user, trimmed and lowercased.
StoredName(i) == ToLowerCase(Trim(users[i].username))
\* The step ends a request to /create.
Creating(slot) ==
  /\ req[slot].op = "create"
  /\ req[slot].pc # "done"
  /\ req'[slot].pc = "done"
\* The normalized username of the request is stored.
NameStored(r) ==
  /\ IsStr(r.body.username)
  /\ \E i \in DOMAIN users : StoredName(i) = Normalize(r.body.username)

\* C22 as stated: no two stored users have the same username once trimmed
\* and lowercased, and a creation whose normalized username is already
\* stored fails with DuplicateUsername and stores no user.
C22_UniqueUsernames ==
  /\ [](\A i, j \in DOMAIN users : StoredName(i) = StoredName(j) => i = j)
  /\ [][
       \A slot \in DOMAIN req :
         Creating(slot) /\ NameStored(req[slot])
           => /\ req'[slot].thrown = UsernameTaken
              /\ users' = users
     ]_vars

\* C22, amended: no two stored users have the same username once trimmed
\* and lowercased; a creation whose normalized username is already stored
\* fails with status 400 and stores no user, and it fails with
\* DuplicateUsername when its passwords match and its fields are valid, so
\* that it reaches the insert.
C22_UniqueUsernamesOfValidRequests ==
  /\ [](\A i, j \in DOMAIN users : StoredName(i) = StoredName(j) => i = j)
  /\ [][
       \A slot \in DOMAIN req :
         Creating(slot) /\ NameStored(req[slot])
           => /\ req'[slot].status = 400
              /\ users' = users
              /\ req[slot].pc = "validated"
                   => req'[slot].response = [message |-> UsernameTaken]
              /\ req[slot].pc = "received"
                   => \/ req[slot].body.password # req[slot].body.repeatPassword
                      \/ UserErrors(Normalize(req[slot].body.username),
                                    req[slot].body.password) # {}
     ]_vars

\* Two creations of one name were in flight together: one stored the user,
\* the other was refused by the unique index.
C22_Witness ==
  \E first, second \in DOMAIN req :
    /\ req[first].op = "create"
    /\ req[first].status = 201
    /\ req[second].op = "create"
    /\ req[second].pc = "done"
    /\ req[second].response = [message |-> UsernameTaken]
    /\ req[second].body.username = req[first].body.username
    /\ Len(users) = 1

\* The step answers a request to /login whose username is a string.
LoggingIn(slot) ==
  /\ req[slot].op = "login"
  /\ req[slot].pc = "received"
  /\ req'[slot].pc = "done"
  /\ IsStr(req[slot].body.username)
\* No user has the username of the request.
UnknownUser(r) == FindUser(Normalize(r.body.username)) = {}
\* The password of the request is not the one its user was created with.
WrongPassword(r) ==
  \E i \in FindUser(Normalize(r.body.username)) :
    \/ ~IsStr(r.body.password)
    \/ ~BcryptCompare(r.body.password, users[i].password)

\* C23: a login for a username that does not exist and a login for an
\* existing username with a wrong password have the same outcome: status
\* 401, the InvalidCredentials message, and no token.
C23_SameOutcome ==
  [][
    \A slot \in DOMAIN req :
      LoggingIn(slot) /\ (UnknownUser(req[slot]) \/ WrongPassword(req[slot]))
        => /\ req'[slot].status = 401
           /\ req'[slot].response = [message |-> WrongCredentials]
  ]_vars

\* The operations of /puzzles that authenticateToken guards.
Guarded == {"add", "readAll"}
\* The header carries, as its second word, a token signed with the secret
\* that has not expired.
Genuine(header) ==
  /\ header.present
  /\ Len(header.words) >= 2
  /\ header.words[2].text = "jwt"
  /\ header.words[2].jwt.exp > Now
  /\ header.words[2].jwt.sig =
       Mac(header.words[2].jwt.id, header.words[2].jwt.username,
           header.words[2].jwt.exp, JwtSecret)

\* C30: a guarded request whose token is missing, invalid or expired is
\* answered with 401 by authenticateToken and its operation is not invoked;
\* with a valid token the operation runs with the id of the token's claims
\* as the caller, who owns what it creates.
C30_GuardedByToken ==
  \A slot \in DOMAIN req :
    LET r == req[slot]
    IN r.op \in Guarded /\ r.pc \notin {"idle", "arrived"}
         => IF Genuine(r.authorization)
            THEN /\ r.user = r.authorization.words[2].jwt.id
                 /\ r.status # 401
                 /\ r.status = 201 => store[r.id].owner = r.authorization.words[2].jwt.id
            ELSE /\ r.pc = "done"
                 /\ r.status = 401
                 /\ "error" \in DOMAIN r.response
                 /\ ~r.queried

\* A request with a token signed for bo has created a record of bo's, and
\* a later request with a token that fails verification is refused.
C30_Witness ==
  \E slot \in DOMAIN req :
    /\ req[slot].op \in Guarded
    /\ req[slot].status = 401
    /\ req[slot].authorization.present
    /\ Len(req[slot].authorization.words) >= 2
    /\ req[slot].authorization.words[2].text = "jwt"
    /\ \E i \in DOMAIN store : store[i].owner = "bo"

====
